---------------------------- MODULE Spec2Model ----------------------------
(***************************************************************************)
(* The markdown renderer and the syntax highlighter of js/blog.js, and the *)
(* page scripts js/navigation.js, js/theme.js and js/activity.js.          *)
(*                                                                         *)
(* Texts are TLA+ strings, handled character by character with Len,        *)
(* SubSeq and \o.  The TLA+ lexer admits no grave accent inside a string,  *)
(* so the grave accent (U+0060, the markdown backtick) is written as the   *)
(* tilde throughout: BT.  No text of the model uses a real tilde.          *)
(***************************************************************************)
EXTENDS Integers, Sequences, FiniteSets, TLC

VARIABLES
    input,       \* parseMarkdown: the argument `markdown` of the running call
    html,        \* parseMarkdown: the local `html`
    codeBlocks,  \* parseMarkdown: the local `codeBlocks`, records {language, code}
    pc,          \* the position of the running loadBlogPost / parseMarkdown
    calls,       \* how many parseMarkdown calls were started
    returned,    \* history: <<markdown, returned html>> of each completed call, in order
    container,   \* loadBlogPost: container.innerHTML as last assigned
    dom,         \* the realized `pre code` elements: records {className, innerHTML}
    response,    \* loadBlogPost: how the fetch and the read of its body settled
    location,    \* navigation: window.location.pathname
    navPc,       \* navigation: "loading" until DOMContentLoaded has been dispatched
    thrown,      \* navigation: the error that ended the DOMContentLoaded listener, "" for none
    active,      \* navigation: the hrefs of the .nav-link elements with class 'active'
    elements,    \* navigation: which of .mobile-menu-toggle, .sidebar, .main-content the page has
    listeners,   \* navigation: the targets that have their listener added
    folderOpen,  \* navigation: for each folder item, whether it has class 'open'
    ariaExpanded,\* navigation: for each folder header, its aria-expanded attribute
    clicks,      \* history: how many clicks each folder header received
    sidebarOpen, \* navigation: whether .sidebar has class 'open'
    toggleText,  \* navigation: textContent of .mobile-menu-toggle
    toggleExpanded, \* navigation: aria-expanded of .mobile-menu-toggle
    innerWidth,  \* navigation: window.innerWidth
    event,       \* history: the last event dispatched, a record {type, target}
    dataTheme,   \* theme: the data-theme attribute of the document element
    stored,      \* theme: localStorage's item 'theme'
    themeIcon,   \* theme: the icon of the #theme-toggle button, "none" without the button
    themeTitle,  \* theme: the title of the #theme-toggle button
    themeLog,    \* history: the calls of initTheme, setTheme, toggleTheme, in order
    version,     \* activity: which of the two activity scripts the page loads
    actPc,       \* activity: the position of initActivity
    outcome,     \* activity: how the fetch of each source settled, and the events GitHub sent
    recentActivities, \* activity: the array recentActivities (recentFeed), records {title, time, desc}
    activeDays,  \* activity: the dates marked active in activityData (dailyActivity)
    heatmap,     \* activity: #unified-heatmap, a record {state, days}
    feed,        \* activity: #activity-feed, a record {state, items}
    loads,       \* overlapping loadBlogPost calls: for each call its position and what it wrote last
    order        \* history: the calls in the order they were started

blogVars == <<input, html, codeBlocks, pc, calls, returned, container, dom, response>>

navVars == <<location, navPc, thrown, active, elements, listeners, folderOpen, ariaExpanded,
             clicks, sidebarOpen, toggleText, toggleExpanded, innerWidth, event>>

themeVars == <<dataTheme, stored, themeIcon, themeTitle, themeLog>>

activityVars == <<version, actPc, outcome, recentActivities, activeDays, heatmap, feed>>

overlapVars == <<loads, order>>

\* the state outside js/blog.js
siteVars == <<navVars, themeVars, activityVars, overlapVars>>

\* the state outside js/navigation.js, and outside js/theme.js
notNav == <<blogVars, themeVars, activityVars, overlapVars>>

notTheme == <<blogVars, navVars, activityVars, overlapVars>>

notActivity == <<blogVars, navVars, themeVars, overlapVars>>

\* the state that overlapping loads leave alone: all but the container
notOverlap == <<input, html, codeBlocks, pc, calls, returned, dom, response,
                navVars, themeVars, activityVars>>

vars == <<blogVars, siteVars>>

\* no page script has run: the state of the other scripts while one is looked at
NavIdle ==
    /\ location = "/index.html"
    /\ navPc = "loading"
    /\ thrown = ""
    /\ active = {}
    /\ elements = {}
    /\ listeners = {}
    /\ folderOpen = <<>>
    /\ ariaExpanded = <<>>
    /\ clicks = <<>>
    /\ sidebarOpen = FALSE
    /\ toggleText = ""
    /\ toggleExpanded = "false"
    /\ innerWidth = 1024
    /\ event = [type |-> "none", target |-> ""]

\* getAttribute and getItem give null for what is absent
Absent == "(null)"

ThemeIdle ==
    /\ dataTheme = Absent
    /\ stored = Absent
    /\ themeIcon = "none"
    /\ themeTitle = ""
    /\ themeLog = <<>>

ActivityIdle ==
    /\ version = "js/activity.js"
    /\ actPc = "idle"
    /\ outcome = [github |-> "pending", leetcode |-> "pending", events |-> <<>>]
    /\ recentActivities = <<>>
    /\ activeDays = {}
    /\ heatmap = [state |-> "initial", days |-> {}]
    /\ feed = [state |-> "initial", items |-> <<>>]

OverlapIdle ==
    /\ loads = <<>>
    /\ order = <<>>

SiteIdle == NavIdle /\ ThemeIdle /\ ActivityIdle /\ OverlapIdle

(***************************************************************************)
(* Characters and character classes of the JavaScript regular expressions. *)
(***************************************************************************)
BT == "~"
LF == "\n"
CR == "\r"
DQ == "\""
SQ == "'"
BS == "\\"

Ch(s, i) == SubSeq(s, i, i)

CharsOf(s) == {Ch(s, i) : i \in 1..Len(s)}

\* \w
WordChars == CharsOf("abcdefghijklmnopqrstuvwxyzABCDEFGHIJKLMNOPQRSTUVWXYZ0123456789_")

\* \d
Digits == CharsOf("0123456789")

\* the line terminators: what `.` does not match, and where ^ and $ match
\* under the m flag (U+2028 and U+2029 cannot be written here)
LineTerminators == {LF, CR}

\* \s and String.prototype.trim (the ASCII part)
WhiteSpace == {" ", "\t", LF, CR, "\f"}

IsWord(s, i) == i >= 1 /\ i <= Len(s) /\ Ch(s, i) \in WordChars

\* \b before position i
WordBoundary(s, i) == IsWord(s, i - 1) # IsWord(s, i)

\* ^ under the m flag
AtLineStart(s, i) == i = 1 \/ Ch(s, i - 1) \in LineTerminators

StartsAt(s, i, p) ==
    /\ i >= 1
    /\ i + Len(p) - 1 <= Len(s)
    /\ SubSeq(s, i, i + Len(p) - 1) = p

From(s, i) == SubSeq(s, i, Len(s))

Min(S) == CHOOSE k \in S : \A j \in S : k <= j

Max(S) == CHOOSE k \in S : \A j \in S : k >= j

\* String.prototype.indexOf(p, i - 1) + 1: the first place of p at or after i, 0 if none
IndexFrom(s, p, i) ==
    LET K == {k \in i..(Len(s) - Len(p) + 1) : StartsAt(s, k, p)}
    IN  IF K = {} THEN 0 ELSE Min(K)

\* the last place of p in s[i..j-1] that ends before j, 0 if none
LastIndexIn(s, p, i, j) ==
    LET K == {k \in i..(j - Len(p)) : StartsAt(s, k, p)}
    IN  IF K = {} THEN 0 ELSE Max(K)

Contains(s, p) == IndexFrom(s, p, 1) # 0

StartsWith(s, p) == StartsAt(s, 1, p)

\* the number of non-overlapping occurrences of p in s, counted from the left
RECURSIVE CountFrom(_, _, _)
CountFrom(s, p, i) ==
    LET k == IndexFrom(s, p, i)
    IN  IF k = 0 THEN 0 ELSE 1 + CountFrom(s, p, k + Len(p))

Count(s, p) == CountFrom(s, p, 1)

\* the end of the run of characters of class C that starts at i (exclusive)
RunEnd(s, i, C) ==
    LET K == {k \in i..Len(s) : Ch(s, k) \notin C}
    IN  IF K = {} THEN Len(s) + 1 ELSE Min(K)

\* where a greedy .* or .+ started at i stops: the next line terminator or the end
LineEnd(s, i) ==
    LET K == {k \in i..Len(s) : Ch(s, k) \in LineTerminators}
    IN  IF K = {} THEN Len(s) + 1 ELSE Min(K)

\* String.prototype.trim
Trim(s) ==
    LET K == {k \in 1..Len(s) : Ch(s, k) \notin WhiteSpace}
    IN  IF K = {} THEN "" ELSE SubSeq(s, Min(K), Max(K))

\* String.prototype.split(sep), sep not empty
RECURSIVE Split(_, _, _)
Split(s, sep, i) ==
    LET k == IndexFrom(s, sep, i)
    IN  IF k = 0 THEN <<From(s, i)>>
        ELSE <<SubSeq(s, i, k - 1)>> \o Split(s, sep, k + Len(sep))

\* Array.prototype.join(sep)
RECURSIVE Join(_, _)
Join(parts, sep) ==
    IF parts = <<>> THEN ""
    ELSE IF Len(parts) = 1 THEN parts[1]
    ELSE parts[1] \o sep \o Join(Tail(parts), sep)


(***************************************************************************)
(* String.prototype.replace with a global regular expression.  A rule is a *)
(* record naming the shape of the regular expression (kind) with its       *)
(* literal parts and the parts of the replacement around the captured      *)
(* group.  MatchEnd(rule, s, k) is the place just after the match that     *)
(* starts at k, or 0 when the expression does not match at k;              *)
(* Subst(rule, s, k, e) is the replacement of the match s[k..e-1].         *)
(***************************************************************************)

\* /pat/g -> repl
LiteralEnd(rule, s, k) ==
    IF StartsAt(s, k, rule.pat) THEN k + Len(rule.pat) ELSE 0

\* /^prefix(.+)$/gm -> before $1 after
LineRuleEnd(rule, s, k) ==
    LET c == k + Len(rule.prefix)
    IN  IF AtLineStart(s, k) /\ StartsAt(s, k, rule.prefix) /\ LineEnd(s, c) > c
        THEN LineEnd(s, c) ELSE 0

\* /open(.+?)close/g -> before $1 after: the nearest close with at least one
\* character before it and no line terminator in between
LazyEnd(rule, s, k) ==
    IF ~StartsAt(s, k, rule.open) THEN 0
    ELSE LET c == k + Len(rule.open)
             J == {j \in (c + 1)..LineEnd(s, c) : StartsAt(s, j, rule.close)}
         IN  IF J = {} THEN 0 ELSE Min(J) + Len(rule.close)

\* /q([^q]+)q/g -> before $1 after, q one character
NegatedEnd(rule, s, k) ==
    IF ~StartsAt(s, k, rule.open) THEN 0
    ELSE LET j == IndexFrom(s, rule.open, k + 1)
         IN  IF j > k + 1 THEN j + 1 ELSE 0

\* the place of the "]" of /\[([^\]]+)\]\(([^)]+)\)/ matched from k
LinkTextEnd(s, k) == IndexFrom(s, "]", k + 1)

LinkEnd(rule, s, k) ==
    IF ~StartsAt(s, k, "[") THEN 0
    ELSE LET t == LinkTextEnd(s, k)
         IN  IF t > k + 1 /\ StartsAt(s, t + 1, "(")
             THEN LET u == IndexFrom(s, ")", t + 2)
                  IN  IF u > t + 2 THEN u + 1 ELSE 0
             ELSE 0

\* /(<li>.*<\/li>\n?)+/g: one iteration takes <li>, the rest of the line up to
\* its last </li>, and a line feed if one follows; iterations repeat greedily
RECURSIVE ItemRunEnd(_, _)
ItemRunEnd(s, p) ==
    IF ~StartsAt(s, p, "<li>") THEN p
    ELSE LET q == LastIndexIn(s, "</li>", p + 4, LineEnd(s, p + 4))
         IN  IF q = 0 THEN p
             ELSE IF StartsAt(s, q + 5, LF) THEN ItemRunEnd(s, q + 6)
             ELSE ItemRunEnd(s, q + 5)

ListWrapEnd(rule, s, k) ==
    LET e == ItemRunEnd(s, k) IN IF e > k THEN e ELSE 0

\* /(open.*$)/gm
ToLineEndEnd(rule, s, k) ==
    IF StartsAt(s, k, rule.open) THEN LineEnd(s, k + Len(rule.open)) ELSE 0

\* /(open[\s\S]*?close|...)/g: the alternatives in order, each up to the
\* nearest close
RECURSIVE BlockEnd(_, _, _)
BlockEnd(delims, s, k) ==
    IF delims = <<>> THEN 0
    ELSE LET open == delims[1][1]
             close == delims[1][2]
             j == IF StartsAt(s, k, open) THEN IndexFrom(s, close, k + Len(open)) ELSE 0
         IN  IF j # 0 THEN j + Len(close) ELSE BlockEnd(Tail(delims), s, k)

\* the closing quote of /q(?:[^q\\]|\\.)*q/ whose body starts at p, 0 if none
RECURSIVE QuotedClose(_, _, _)
QuotedClose(s, p, q) ==
    IF p > Len(s) THEN 0
    ELSE IF Ch(s, p) = q THEN p
    ELSE IF Ch(s, p) = BS
         THEN IF p + 1 <= Len(s) /\ Ch(s, p + 1) \notin LineTerminators
              THEN QuotedClose(s, p + 2, q) ELSE 0
    ELSE QuotedClose(s, p + 1, q)

\* /("(?:[^"\\]|\\.)*"|'(?:[^'\\]|\\.)*'|...)/g
QuotedEnd(rule, s, k) ==
    IF k <= Len(s) /\ Ch(s, k) \in rule.quotes
    THEN LET c == QuotedClose(s, k + 1, Ch(s, k)) IN IF c = 0 THEN 0 ELSE c + 1
    ELSE 0

\* /\b(\d+\.?\d*[suffix]?)\b/g: the ends the backtracking matcher tries, in
\* the order it tries them (each quantifier greedy, longest first)
SuffixEnds(s, b, suffix) ==
    IF b <= Len(s) /\ Ch(s, b) \in suffix THEN <<b + 1, b>> ELSE <<b>>

RECURSIVE FractionEnds(_, _, _, _)
FractionEnds(s, p, b, suffix) ==
    IF b < p THEN <<>>
    ELSE SuffixEnds(s, b, suffix) \o FractionEnds(s, p, b - 1, suffix)

DotEnds(s, a, suffix) ==
    LET plain == FractionEnds(s, a, RunEnd(s, a, Digits), suffix)
    IN  IF StartsAt(s, a, ".")
        THEN FractionEnds(s, a + 1, RunEnd(s, a + 1, Digits), suffix) \o plain
        ELSE plain

RECURSIVE IntegerEnds(_, _, _, _)
IntegerEnds(s, k, a, suffix) ==
    IF a <= k THEN <<>>
    ELSE DotEnds(s, a, suffix) \o IntegerEnds(s, k, a - 1, suffix)

NumberEnd(rule, s, k) ==
    IF k <= Len(s) /\ Ch(s, k) \in Digits /\ WordBoundary(s, k)
    THEN LET ends == IntegerEnds(s, k, RunEnd(s, k, Digits), rule.suffix)
             ok == {n \in 1..Len(ends) : WordBoundary(s, ends[n])}
         IN  IF ok = {} THEN 0 ELSE ends[Min(ok)]
    ELSE 0

\* /\b(word)\b/g
WordEnd(rule, s, k) ==
    IF StartsAt(s, k, rule.word) /\ WordBoundary(s, k)
       /\ WordBoundary(s, k + Len(rule.word))
    THEN k + Len(rule.word) ELSE 0

\* the start of the name in /\bdef\s+(\w+)/ matched from k, 0 if no match
DefNameStart(s, k) ==
    IF StartsAt(s, k, "def") /\ WordBoundary(s, k)
    THEN LET w == RunEnd(s, k + 3, WhiteSpace)
         IN  IF w > k + 3 /\ IsWord(s, w) THEN w ELSE 0
    ELSE 0

DefEnd(rule, s, k) ==
    LET w == DefNameStart(s, k) IN IF w = 0 THEN 0 ELSE RunEnd(s, w, WordChars)

MatchEnd(rule, s, k) ==
    CASE rule.kind = "word" -> WordEnd(rule, s, k)
      [] rule.kind = "literal" -> LiteralEnd(rule, s, k)
      [] rule.kind = "line" -> LineRuleEnd(rule, s, k)
      [] rule.kind = "lazy" -> LazyEnd(rule, s, k)
      [] rule.kind = "negated" -> NegatedEnd(rule, s, k)
      [] rule.kind = "link" -> LinkEnd(rule, s, k)
      [] rule.kind = "listWrap" -> ListWrapEnd(rule, s, k)
      [] rule.kind = "toLineEnd" -> ToLineEndEnd(rule, s, k)
      [] rule.kind = "block" -> BlockEnd(rule.delims, s, k)
      [] rule.kind = "quoted" -> QuotedEnd(rule, s, k)
      [] rule.kind = "number" -> NumberEnd(rule, s, k)
      [] rule.kind = "def" -> DefEnd(rule, s, k)

Subst(rule, s, k, e) ==
    CASE rule.kind = "literal" -> rule.repl
      [] rule.kind = "line" ->
            rule.before \o SubSeq(s, k + Len(rule.prefix), e - 1) \o rule.after
      [] rule.kind = "lazy" ->
            rule.before \o SubSeq(s, k + Len(rule.open), e - Len(rule.close) - 1)
                \o rule.after
      [] rule.kind = "negated" ->
            rule.before \o SubSeq(s, k + 1, e - 2) \o rule.after
      [] rule.kind = "link" ->
            LET t == LinkTextEnd(s, k)
            IN  "<a href=\"" \o SubSeq(s, t + 2, e - 2) \o "\">"
                    \o SubSeq(s, k + 1, t - 1) \o "</a>"
      [] rule.kind = "def" ->
            LET w == DefNameStart(s, k)
            IN  rule.before \o SubSeq(s, w, e - 1) \o rule.after
      [] OTHER -> rule.before \o SubSeq(s, k, e - 1) \o rule.after

\* the characters a match of the rule can start with
Lead(rule) ==
    CASE rule.kind = "word" -> {Ch(rule.word, 1)}
      [] rule.kind = "literal" -> {Ch(rule.pat, 1)}
      [] rule.kind = "line" -> {Ch(rule.prefix, 1)}
      [] rule.kind \in {"lazy", "negated", "toLineEnd"} -> {Ch(rule.open, 1)}
      [] rule.kind = "link" -> {"["}
      [] rule.kind = "listWrap" -> {"<"}
      [] rule.kind = "block" -> {Ch(rule.delims[i][1], 1) : i \in 1..Len(rule.delims)}
      [] rule.kind = "quoted" -> rule.quotes
      [] rule.kind = "number" -> Digits
      [] rule.kind = "def" -> {"d"}

RECURSIVE ReplaceFrom(_, _, _)
ReplaceFrom(rule, s, from) ==
    LET lead == Lead(rule)
        starts == {k \in from..Len(s) : Ch(s, k) \in lead /\ MatchEnd(rule, s, k) # 0}
    IN  IF starts = {} THEN From(s, from)
        ELSE LET k == Min(starts)
                 e == MatchEnd(rule, s, k)
             IN  SubSeq(s, from, k - 1) \o Subst(rule, s, k, e)
                     \o ReplaceFrom(rule, s, e)

ReplaceAll(rule, s) == ReplaceFrom(rule, s, 1)

\* the rules of a list applied one after the other (forEach over a word list,
\* or consecutive replace statements)
RECURSIVE ReplaceEach(_, _, _)
ReplaceEach(rules, n, s) ==
    IF n > Len(rules) THEN s
    ELSE LET t == ReplaceAll(rules[n], s)
         IN  IF t = "" THEN "" ELSE ReplaceEach(rules, n + 1, t)

\* an escapeMap without the entry for the apostrophe
EscapeCharNoApostrophe(c) ==
    CASE c = "&" -> "&amp;"
      [] c = "<" -> "&lt;"
      [] c = ">" -> "&gt;"
      [] c = DQ -> "&quot;"
      [] OTHER -> c

(***************************************************************************)
(* escapeHtml                                                              *)
(***************************************************************************)
EscapeChar(c) ==
    CASE c = "&" -> "&amp;"
      [] c = "<" -> "&lt;"
      [] c = ">" -> "&gt;"
      [] c = DQ -> "&quot;"
      [] c = SQ -> "&#39;"
      [] OTHER -> c

RECURSIVE EscapeFrom(_, _)
EscapeFrom(text, i) ==
    LET K == {k \in i..Len(text) : Ch(text, k) \in {"&", "<", ">", DQ, SQ}}
    IN  IF K = {} THEN From(text, i)
        ELSE SubSeq(text, i, Min(K) - 1) \o EscapeChar(Ch(text, Min(K)))
                 \o EscapeFrom(text, Min(K) + 1)

escapeHtml(text) == EscapeFrom(text, 1)

(***************************************************************************)
(* parseMarkdown, statement by statement                                   *)
(***************************************************************************)

\* a replacement that drops the line feed of the pair and keeps the carriage return
CrNormalizeRule == [kind |-> "literal", pat |-> CR \o LF, repl |-> CR]

\* html.replace(/\r\n/g, '\n')
NormalizeRule == [kind |-> "literal", pat |-> CR \o LF, repl |-> LF]

Normalized(markdown) == ReplaceAll(NormalizeRule, markdown)

\* the template literal __CODE_BLOCK_${index}__
Placeholder(index) == "__CODE_BLOCK_" \o ToString(index) \o "__"

\* /```(\w*)\n([\s\S]*?)```/: the places of a match that starts at k (tagEnd:
\* the line feed after the tag; close: the closing fence), or tagEnd = 0
Fence == BT \o BT \o BT

\* a pattern that lets the end of the text close a fence
OpenEndedFenceMatch(s, k) ==
    IF ~StartsAt(s, k, Fence) THEN [tagEnd |-> 0, close |-> 0]
    ELSE LET t == RunEnd(s, k + 3, WordChars)
             c == IF ~StartsAt(s, t, LF) THEN 0
                  ELSE IF IndexFrom(s, Fence, t + 1) = 0 THEN Len(s) + 1
                  ELSE IndexFrom(s, Fence, t + 1)
         IN  IF c = 0 THEN [tagEnd |-> 0, close |-> 0] ELSE [tagEnd |-> t, close |-> c]

FenceMatch(s, k) ==
    IF ~StartsAt(s, k, Fence) THEN [tagEnd |-> 0, close |-> 0]
    ELSE LET t == RunEnd(s, k + 3, WordChars)
             c == IF StartsAt(s, t, LF) THEN IndexFrom(s, Fence, t + 1) ELSE 0
         IN  IF c = 0 THEN [tagEnd |-> 0, close |-> 0] ELSE [tagEnd |-> t, close |-> c]

\* a callback that escapes the code as matched, without trimming it
UntrimmedCodeBlockRecord(s, k) ==
    LET m == FenceMatch(s, k)
    IN  [language |-> SubSeq(s, k + 3, m.tagEnd - 1),
         code |-> escapeHtml(SubSeq(s, m.tagEnd + 1, m.close - 1))]

\* the callback of the extractor: the record pushed for the match at k
CodeBlockRecord(s, k) ==
    LET m == FenceMatch(s, k)
    IN  [language |-> SubSeq(s, k + 3, m.tagEnd - 1),
         code |-> escapeHtml(Trim(SubSeq(s, m.tagEnd + 1, m.close - 1)))]

\* html.replace(/```(\w*)\n([\s\S]*?)```/g, function ...): the text with the
\* placeholders, and codeBlocks after the pushes
RECURSIVE ExtractFrom(_, _, _)
ExtractFrom(s, from, blocks) ==
    LET starts == {k \in from..Len(s) : FenceMatch(s, k).tagEnd # 0}
    IN  IF starts = {} THEN [html |-> From(s, from), codeBlocks |-> blocks]
        ELSE LET k == Min(starts)
                 index == Len(blocks)
                 rest == ExtractFrom(s, FenceMatch(s, k).close + 3,
                                     Append(blocks, CodeBlockRecord(s, k)))
             IN  [html |-> SubSeq(s, from, k - 1) \o Placeholder(index) \o rest.html,
                  codeBlocks |-> rest.codeBlocks]

Extracted(s, blocks) == ExtractFrom(s, 1, blocks)

\* '<hN>$1</hN>' for /^#{N} (.+)$/gm
HeadingTag(n) == "h" \o ToString(n)

RECURSIVE Hashes(_)
Hashes(n) == IF n = 0 THEN "" ELSE "#" \o Hashes(n - 1)

HeadingRule(n) ==
    [kind |-> "line", prefix |-> Hashes(n) \o " ",
     before |-> "<" \o HeadingTag(n) \o ">", after |-> "</" \o HeadingTag(n) \o ">"]

\* heading rules that stop at five markers
ShallowHeadingRules ==
    <<HeadingRule(5), HeadingRule(4), HeadingRule(3), HeadingRule(2), HeadingRule(1)>>

\* the six replace statements, the 6-marker one first
HeadingRules ==
    <<HeadingRule(6), HeadingRule(5), HeadingRule(4),
      HeadingRule(3), HeadingRule(2), HeadingRule(1)>>

WithHeadings(s) == ReplaceEach(HeadingRules, 1, s)

StrongStarRule ==
    [kind |-> "lazy", open |-> "**", close |-> "**",
     before |-> "<strong>", after |-> "</strong>"]

StrongUnderRule ==
    [kind |-> "lazy", open |-> "__", close |-> "__",
     before |-> "<strong>", after |-> "</strong>"]

EmStarRule ==
    [kind |-> "lazy", open |-> "*", close |-> "*", before |-> "<em>", after |-> "</em>"]

EmUnderRule ==
    [kind |-> "lazy", open |-> "_", close |-> "_", before |-> "<em>", after |-> "</em>"]

\* emphasis rules for the star markers only
StarEmphasisRules == <<StrongStarRule, EmStarRule>>

EmphasisRules == <<StrongStarRule, StrongUnderRule, EmStarRule, EmUnderRule>>

WithEmphasis(s) == ReplaceEach(EmphasisRules, 1, s)

InlineCodeRule ==
    [kind |-> "negated", open |-> BT, before |-> "<code>", after |-> "</code>"]

WithInlineCode(s) == ReplaceAll(InlineCodeRule, s)

LinkRule == [kind |-> "link"]

WithLinks(s) == ReplaceAll(LinkRule, s)

ListItemRule ==
    [kind |-> "line", prefix |-> "- ", before |-> "<li>", after |-> "</li>"]

ListWrapRule == [kind |-> "listWrap", before |-> "<ul>", after |-> "</ul>"]

WithLists(s) == ReplaceEach(<<ListItemRule, ListWrapRule>>, 1, s)

\* block.replace(/\n/g, '<br>')
LineBreakRule == [kind |-> "literal", pat |-> LF, repl |-> "<br>"]

\* a callback that wraps whatever is not passed through, the empty block too
EagerParagraphOf(rawBlock) ==
    LET block == Trim(rawBlock)
    IN  IF \/ StartsWith(block, "<h")
           \/ StartsWith(block, "<ul")
           \/ StartsWith(block, "<p")
           \/ StartsWith(block, "__CODE_BLOCK_")
        THEN block
        ELSE "<p>" \o ReplaceAll(LineBreakRule, block) \o "</p>"

\* the callback of lines.map
ParagraphOf(rawBlock) ==
    LET block == Trim(rawBlock)
    IN  IF \/ StartsWith(block, "<h")
           \/ StartsWith(block, "<ul")
           \/ StartsWith(block, "<p")
           \/ StartsWith(block, "__CODE_BLOCK_")
        THEN block
        ELSE IF block = "" THEN ""
        ELSE "<p>" \o ReplaceAll(LineBreakRule, block) \o "</p>"

WithParagraphs(s) ==
    LET lines == Split(s, LF \o LF, 1)
    IN  Join([i \in 1..Len(lines) |-> ParagraphOf(lines[i])], LF)

\* the replacement patterns of String.prototype.replace in a replacement
\* string, for a string pattern (no captures): $$, $&, $` and $'
RECURSIVE ExpandFrom(_, _, _, _, _)
ExpandFrom(repl, i, matched, before, after) ==
    LET k == IndexFrom(repl, "$", i)
        d == Ch(repl, k + 1)
    IN  IF k = 0 \/ k = Len(repl) THEN From(repl, i)
        ELSE SubSeq(repl, i, k - 1)
             \o (CASE d = "$" -> "$" \o ExpandFrom(repl, k + 2, matched, before, after)
                   [] d = "&" -> matched \o ExpandFrom(repl, k + 2, matched, before, after)
                   [] d = BT -> before \o ExpandFrom(repl, k + 2, matched, before, after)
                   [] d = SQ -> after \o ExpandFrom(repl, k + 2, matched, before, after)
                   [] OTHER -> "$" \o ExpandFrom(repl, k + 1, matched, before, after))

\* s.replace(pattern, repl) with a string pattern: the first occurrence only
ReplaceFirst(s, pattern, repl) ==
    LET k == IndexFrom(s, pattern, 1)
        before == SubSeq(s, 1, k - 1)
        after == From(s, k + Len(pattern))
    IN  IF k = 0 THEN s
        ELSE before \o ExpandFrom(repl, 1, pattern, before, after) \o after

\* the codeHtml of the restorer for one record
CodeHtml(block) ==
    LET languageClass == IF block.language # "" THEN "language-" \o block.language ELSE ""
    IN  "<pre><code class=\"" \o languageClass \o "\">" \o block.code \o "</code></pre>"

\* codeBlocks.forEach(function (block, index) ...), from the record numbered index
RECURSIVE RestoreFrom(_, _, _)
RestoreFrom(s, blocks, index) ==
    IF index >= Len(blocks) THEN s
    ELSE RestoreFrom(ReplaceFirst(s, Placeholder(index), CodeHtml(blocks[index + 1])),
                     blocks, index + 1)

Restored(s, blocks) == RestoreFrom(s, blocks, 0)

\* parseMarkdown as a function of its argument
parseMarkdown(markdown) ==
    LET x == Extracted(Normalized(markdown), <<>>)
    IN  Restored(WithParagraphs(WithLists(WithLinks(WithInlineCode(
            WithEmphasis(WithHeadings(x.html)))))), x.codeBlocks)

(***************************************************************************)
(* The highlighters.  Each is a fixed sequence of global replacements on   *)
(* the code text; every replacement wraps its match in a span.             *)
(***************************************************************************)
SpanOpen(class) == "<span class=\"code-" \o class \o "\">"

SpanClose == "</span>"

CppKeywords ==
    <<"auto", "break", "case", "catch", "class", "const", "continue",
      "default", "delete", "do", "else", "enum", "explicit", "extern",
      "false", "for", "friend", "goto", "if", "inline", "namespace", "new",
      "nullptr", "operator", "private", "protected", "public", "return",
      "sizeof", "static", "struct", "switch", "template", "this", "throw",
      "true", "try", "typedef", "typename", "union", "using", "virtual",
      "void", "volatile", "while", "override", "final", "constexpr",
      "noexcept", "static_cast", "dynamic_cast", "reinterpret_cast",
      "const_cast", "std", "move", "forward", "make_unique", "make_shared">>

CppTypes ==
    <<"int", "char", "bool", "float", "double", "long", "short", "unsigned",
      "signed", "size_t", "string", "vector", "map", "unique_ptr",
      "shared_ptr", "weak_ptr", "optional", "variant">>

PythonKeywords ==
    <<"and", "as", "assert", "async", "await", "break", "class", "continue",
      "def", "del", "elif", "else", "except", "finally", "for", "from",
      "global", "if", "import", "in", "is", "lambda", "None", "nonlocal",
      "not", "or", "pass", "raise", "return", "True", "False", "try",
      "while", "with", "yield", "self">>

JavaScriptKeywords ==
    <<"async", "await", "break", "case", "catch", "class", "const",
      "continue", "debugger", "default", "delete", "do", "else", "export",
      "extends", "finally", "for", "function", "if", "import", "in",
      "instanceof", "let", "new", "of", "return", "static", "super",
      "switch", "this", "throw", "try", "typeof", "var", "void", "while",
      "with", "yield", "true", "false", "null", "undefined">>

\* new RegExp('\\b(' + word + ')\\b', 'g') -> '<span class="code-CLASS">$1</span>'
WordRule(word, class) ==
    [kind |-> "word", word |-> word, before |-> SpanOpen(class), after |-> SpanClose]

WordRules(words, class) == [i \in 1..Len(words) |-> WordRule(words[i], class)]

\* /(\/\/.*$)/gm and /(#.*$)/gm
LineCommentRule(marker) ==
    [kind |-> "toLineEnd", open |-> marker,
     before |-> SpanOpen("comment"), after |-> SpanClose]

\* /(\/\*[\s\S]*?\*\/)/g
BlockCommentRule ==
    [kind |-> "block", delims |-> << <<"/*", "*/">> >>,
     before |-> SpanOpen("comment"), after |-> SpanClose]

\* /("""[\s\S]*?"""|'''[\s\S]*?''')/g
TripleQuoteRule ==
    [kind |-> "block",
     delims |-> << <<DQ \o DQ \o DQ, DQ \o DQ \o DQ>>, <<SQ \o SQ \o SQ, SQ \o SQ \o SQ>> >>,
     before |-> SpanOpen("string"), after |-> SpanClose]

\* /("(?:[^"\\]|\\.)*"|...)/g, one alternative for each quote character
StringRule(quotes) ==
    [kind |-> "quoted", quotes |-> quotes,
     before |-> SpanOpen("string"), after |-> SpanClose]

\* /\b(\d+\.?\d*[fFL]?)\b/g and /\b(\d+\.?\d*)\b/g
NumberRule(suffix) ==
    [kind |-> "number", suffix |-> suffix,
     before |-> SpanOpen("number"), after |-> SpanClose]

\* /\bdef\s+(\w+)/g -> 'def <span class="code-function">$1</span>'
FunctionNameRule ==
    [kind |-> "def", before |-> "def " \o SpanOpen("function"), after |-> SpanClose]

CppRules ==
    <<LineCommentRule("//"), BlockCommentRule, StringRule({DQ}),
      NumberRule({"f", "F", "L"})>>
        \o WordRules(CppKeywords, "keyword") \o WordRules(CppTypes, "type")

PythonRules ==
    <<LineCommentRule("#"), TripleQuoteRule, StringRule({DQ, SQ}), NumberRule({})>>
        \o WordRules(PythonKeywords, "keyword") \o <<FunctionNameRule>>

JavaScriptRules ==
    <<LineCommentRule("//"), BlockCommentRule, StringRule({DQ, SQ, BT}),
      NumberRule({})>>
        \o WordRules(JavaScriptKeywords, "keyword")

highlightCppLike(code) == ReplaceEach(CppRules, 1, code)

highlightPython(code) == ReplaceEach(PythonRules, 1, code)

highlightJavaScript(code) == ReplaceEach(JavaScriptRules, 1, code)

(***************************************************************************)
(* The page: the markup assigned to container.innerHTML and the `pre code` *)
(* elements the browser realizes from it.                                  *)
(***************************************************************************)

\* element.innerHTML read back from a text-only element: the serializer writes
\* & < > as entities and the quotes as themselves
QuoteEntityRules ==
    <<[kind |-> "literal", pat |-> "&quot;", repl |-> DQ],
      [kind |-> "literal", pat |-> "&#39;", repl |-> SQ]>>

InnerHtml(content) == ReplaceEach(QuoteEntityRules, 1, content)

\* document.querySelectorAll('pre code') on markup of the form the restorer
\* writes: <pre><code class="C">X</code></pre>
CodeOpen == "<pre><code class=\""

RECURSIVE CodeElementsFrom(_, _)
CodeElementsFrom(markup, from) ==
    LET k == IndexFrom(markup, CodeOpen, from)
        c == IndexFrom(markup, DQ \o ">", k + Len(CodeOpen))
        e == IndexFrom(markup, "</code>", c + 2)
    IN  IF k = 0 \/ c = 0 \/ e = 0 THEN <<>>
        ELSE <<[className |-> SubSeq(markup, k + Len(CodeOpen), c - 1),
                innerHTML |-> InnerHtml(SubSeq(markup, c + 2, e - 1))]>>
                 \o CodeElementsFrom(markup, e + 7)

CodeElements(markup) == CodeElementsFrom(markup, 1)

\* block.className.match(/language-(\w+)/): the captured tag, '' without a match
LanguageOf(className) ==
    LET K == {k \in 1..Len(className) :
                 StartsAt(className, k, "language-") /\ IsWord(className, k + 9)}
    IN  IF K = {} THEN ""
        ELSE SubSeq(className, Min(K) + 9, RunEnd(className, Min(K) + 9, WordChars) - 1)

\* a dispatch that knows one tag for each tokenizer and none of the aliases
NarrowHighlightedCode(block) ==
    LET language == LanguageOf(block.className)
    IN  IF language = "cpp" THEN highlightCppLike(block.innerHTML)
        ELSE IF language = "python" THEN highlightPython(block.innerHTML)
        ELSE IF language = "javascript" THEN highlightJavaScript(block.innerHTML)
        ELSE block.innerHTML

\* the body of highlightCodeBlocks' forEach callback: the new innerHTML
HighlightedCode(block) ==
    LET language == LanguageOf(block.className)
    IN  IF language \in {"cpp", "c", "csharp"} THEN highlightCppLike(block.innerHTML)
        ELSE IF language = "python" THEN highlightPython(block.innerHTML)
        ELSE IF language \in {"javascript", "js"} THEN highlightJavaScript(block.innerHTML)
        ELSE block.innerHTML

\* the fetch of loadBlogPost: not started, pending, rejected with a message, or
\* fulfilled with a status; body tells how response.text() settled
NoResponse == [state |-> "none", status |-> 0, message |-> "", body |-> "unread"]

(***************************************************************************)
(* The operations.  loadBlogPost, once the markdown text has arrived, calls *)
(* parseMarkdown, assigns the result to the container and calls            *)
(* highlightCodeBlocks; parseMarkdown runs its statements in order.         *)
(***************************************************************************)

\* a codeBlocks array that outlives the call
KeptCodeBlocks(old) == old

\* const codeBlocks = []: the array is created in the call
NewCodeBlocks(old) == <<>>

\* parseMarkdown(markdown) is entered: let html = markdown
ParseCall(markdowns, limit) ==
    /\ pc \in {"idle", "done"}
    /\ calls < limit
    /\ \E markdown \in markdowns :
          /\ input' = markdown
          /\ html' = markdown
    /\ calls' = calls + 1
    /\ pc' = "normalize"
    /\ UNCHANGED <<codeBlocks, returned, container, dom, response, siteVars>>

Normalize ==
    /\ pc = "normalize"
    /\ html' = Normalized(html)
    /\ pc' = "extract"
    /\ UNCHANGED <<input, codeBlocks, calls, returned, container, dom, response, siteVars>>

Extract ==
    /\ pc = "extract"
    /\ LET x == Extracted(html, NewCodeBlocks(codeBlocks))
       IN  /\ html' = x.html
           /\ codeBlocks' = x.codeBlocks
    /\ pc' = "headings"
    /\ UNCHANGED <<input, calls, returned, container, dom, response, siteVars>>

Headings ==
    /\ pc = "headings"
    /\ html' = WithHeadings(html)
    /\ pc' = "emphasis"
    /\ UNCHANGED <<input, codeBlocks, calls, returned, container, dom, response, siteVars>>

Emphasis ==
    /\ pc = "emphasis"
    /\ html' = WithEmphasis(html)
    /\ pc' = "inlineCode"
    /\ UNCHANGED <<input, codeBlocks, calls, returned, container, dom, response, siteVars>>

InlineCode ==
    /\ pc = "inlineCode"
    /\ html' = WithInlineCode(html)
    /\ pc' = "links"
    /\ UNCHANGED <<input, codeBlocks, calls, returned, container, dom, response, siteVars>>

Links ==
    /\ pc = "links"
    /\ html' = WithLinks(html)
    /\ pc' = "lists"
    /\ UNCHANGED <<input, codeBlocks, calls, returned, container, dom, response, siteVars>>

Lists ==
    /\ pc = "lists"
    /\ html' = WithLists(html)
    /\ pc' = "paragraphs"
    /\ UNCHANGED <<input, codeBlocks, calls, returned, container, dom, response, siteVars>>

Paragraphs ==
    /\ pc = "paragraphs"
    /\ html' = WithParagraphs(html)
    /\ pc' = "restore"
    /\ UNCHANGED <<input, codeBlocks, calls, returned, container, dom, response, siteVars>>

\* the restorer, in a loadBlogPost that calls the highlighter before it inserts
HastyRestore ==
    /\ pc = "restore"
    /\ html' = Restored(html, codeBlocks)
    /\ returned' = Append(returned, <<input, html'>>)
    /\ pc' = "highlight"
    /\ UNCHANGED <<input, codeBlocks, calls, container, dom, response, siteVars>>

\* the restorer and return html
Restore ==
    /\ pc = "restore"
    /\ html' = Restored(html, codeBlocks)
    /\ returned' = Append(returned, <<input, html'>>)
    /\ pc' = "insert"
    /\ UNCHANGED <<input, codeBlocks, calls, container, dom, response, siteVars>>

\* container.innerHTML = html
Insert ==
    /\ pc = "insert"
    /\ container' = html
    /\ dom' = CodeElements(html)
    /\ pc' = "highlight"
    /\ UNCHANGED <<input, html, codeBlocks, calls, returned, response, siteVars>>

\* highlightCodeBlocks()
HighlightCodeBlocks ==
    /\ pc = "highlight"
    /\ dom' = [i \in 1..Len(dom) |->
                  [className |-> dom[i].className, innerHTML |-> HighlightedCode(dom[i])]]
    /\ pc' = "done"
    /\ UNCHANGED <<input, html, codeBlocks, calls, returned, container, response, siteVars>>

ParseSteps ==
    \/ Normalize
    \/ Extract
    \/ Headings
    \/ Emphasis
    \/ InlineCode
    \/ Links
    \/ Lists
    \/ Paragraphs
    \/ Restore
    \/ Insert
    \/ HighlightCodeBlocks

\* the page before any post is loaded
Init ==
    /\ input = ""
    /\ html = ""
    /\ codeBlocks = <<>>
    /\ pc = "idle"
    /\ calls = 0
    /\ returned = <<>>
    /\ response = NoResponse
    /\ SiteIdle
    /\ container = ""
    /\ dom = <<>>

\* every concatenation of at most n of the pieces
RECURSIVE Texts(_, _)
Texts(pieces, n) ==
    IF n = 0 THEN {""}
    ELSE {""} \cup {p \o t : p \in pieces, t \in Texts(pieces, n - 1)}

(***************************************************************************)
(* Documents with fenced code blocks: one parseMarkdown call on a text     *)
(* made of at most MaxFenceParts of the pieces below, or on the end-to-end *)
(* example of the specification.                                           *)
(***************************************************************************)
MaxFenceParts == 3

ScriptFence == Fence \o LF \o "<script>" \o LF \o Fence \o LF

BoldFence == Fence \o "js" \o LF \o "**bold**" \o LF \o Fence \o LF

FencePieces == {ScriptFence, BoldFence, Fence \o LF, "a_b ", "text" \o LF, LF}

EndToEndInput ==
    "# Title" \o LF \o LF \o "Some **bold** and _italic_ text." \o LF \o LF
        \o Fence \o "js" \o LF \o "let x = 1; // demo" \o LF \o Fence

FenceInputs == Texts(FencePieces, MaxFenceParts) \cup {EndToEndInput}

FenceCall == ParseCall(FenceInputs, 1)

NextFence == FenceCall \/ ParseSteps

SpecFence == Init /\ [][NextFence]_vars

\* parseMarkdown has returned
Returned == pc \in {"insert", "highlight", "done"}

\* the fenced regions of the running call's text, as the extractor detects them
DetectedBlocks == Extracted(Normalized(input), <<>>).codeBlocks

\* the places in s of the renderings of the records, -1 for one that is missing
WrapperPlaces(s, blocks) ==
    [k \in 1..Len(blocks) |-> IndexFrom(s, CodeHtml(blocks[k]), 1) - 1]

(***************************************************************************)
(* C1.  Extraction and restoration are a bijection: the returned HTML has  *)
(* as many code-block wrappers as the extractor detected fenced regions,   *)
(* the rendering of every record is in it, in the order of the fences, and *)
(* no placeholder is left.  Stated as the claim states it; the code        *)
(* violates it as soon as the text has one fence.                          *)
(***************************************************************************)
C1_Bijection ==
    Returned =>
        LET places == WrapperPlaces(html, DetectedBlocks)
        IN  /\ Count(html, "<pre><code") = Len(DetectedBlocks)
            /\ \A k \in 1..Len(places) : places[k] >= 0
            /\ \A j, k \in 1..Len(places) : j < k => places[j] < places[k]
            /\ \A k \in 1..Len(DetectedBlocks) : ~Contains(html, Placeholder(k - 1))

(***************************************************************************)
(* C2.  Escaping safety: a complete fenced block that holds <script> is in *)
(* the returned HTML as &lt;script&gt; inside its code wrapper, and never  *)
(* as a live tag.  Stated as the claim states it.                          *)
(***************************************************************************)
C2_EscapingSafety ==
    Returned =>
        \A k \in 1..Len(DetectedBlocks) :
            Contains(DetectedBlocks[k].code, "&lt;script&gt;") =>
                /\ Contains(html, "&lt;script&gt;</code></pre>")
                /\ ~Contains(html, "<script>")

(***************************************************************************)
(* C3.  Code isolation: a complete fenced block that holds an inline       *)
(* marker, the bold one or any other, is in the returned HTML with its     *)
(* characters literal, escaped, inside its code wrapper.  Stated as the    *)
(* claim states it.                                                        *)
(***************************************************************************)
InlineMarkers == {"**", "__", "*", "_", BT, "[", "# ", "- "}

C3_CodeIsolation ==
    Returned =>
        \A k \in 1..Len(DetectedBlocks) :
            (\E m \in InlineMarkers : Contains(DetectedBlocks[k].code, m)) =>
                Contains(html, CodeHtml(DetectedBlocks[k]))

(***************************************************************************)
(* C4.  End to end: the example of the specification gives one             *)
(* <h1>Title</h1>, one paragraph with one strong and one emphasis span,    *)
(* one code wrapper of class language-js, and after highlightCodeBlocks    *)
(* the code element has let in a keyword span and // demo in a comment     *)
(* span.  Stated as the claim states it.                                   *)
(***************************************************************************)
C4_EndToEnd ==
    (pc = "done" /\ input = EndToEndInput) =>
        /\ Count(html, "<h1>Title</h1>") = 1
        /\ Count(html, "<h1>") = 1
        /\ Contains(html, "<p>Some <strong>bold</strong> and <em>italic</em> text.</p>")
        /\ Count(html, "<strong>") = 1
        /\ Count(html, "<em>") = 1
        /\ Count(html, "<pre><code") = 1
        /\ Contains(html, "<pre><code class=\"language-js\">")
        /\ Len(dom) = 1
        /\ \A i \in 1..Len(dom) :
              /\ Contains(dom[i].innerHTML, SpanOpen("keyword") \o "let" \o SpanClose)
              /\ Contains(dom[i].innerHTML, SpanOpen("comment") \o "// demo" \o SpanClose)

(***************************************************************************)
(* C6.  Totality: every call returns, and an inline delimiter with no      *)
(* partner anywhere in the text, one whose character occurs in the text    *)
(* only in that delimiter and outside the fenced blocks, is in the         *)
(* returned HTML as the same characters, before the character that         *)
(* followed it.  Stated as the claim states it.                            *)
(***************************************************************************)
LoneDelimiters == {"**", "__", "*", "_", BT, "["}

CharCount(s, c) == Cardinality({k \in 1..Len(s) : Ch(s, k) = c})

\* d is in s once, outside the fenced blocks, and its character nowhere else
Lone(s, d) ==
    /\ Contains(s, d)
    /\ CharCount(s, Ch(d, 1)) = Len(d)
    /\ d = "[" => ~Contains(s, "](")
    /\ \A k \in 1..Len(DetectedBlocks) : ~Contains(DetectedBlocks[k].code, Ch(d, 1))

\* d in s with the character that follows it on its line, if there is one
InPlace(s, d) ==
    LET k == IndexFrom(s, d, 1)
        e == k + Len(d)
    IN  IF e <= Len(s) /\ Ch(s, e) \notin LineTerminators
        THEN SubSeq(s, k, e) ELSE d

C6_Totality ==
    Returned =>
        \A d \in LoneDelimiters :
            Lone(input, d) => Contains(html, InPlace(input, d))

(***************************************************************************)
(* Repeated calls: at most MaxCalls parseMarkdown calls, one after the     *)
(* other, each on any of the texts below.                                  *)
(***************************************************************************)
MaxCalls == 3

ReentrantInputs == {"", "text" \o LF, ScriptFence, BoldFence, ScriptFence \o BoldFence}

ReentrantCall == ParseCall(ReentrantInputs, MaxCalls)

NextCalls == ReentrantCall \/ ParseSteps

SpecCalls == Init /\ [][NextCalls]_vars

(***************************************************************************)
(* C5.  Determinism and reentrancy: two calls on the same text return the  *)
(* same HTML whatever calls came before or in between; the records the     *)
(* extractor leaves are those of the running call's text alone, and its    *)
(* first placeholder carries the ordinal 0.                                *)
(***************************************************************************)
C5_Reentrant ==
    /\ \A i, j \in 1..Len(returned) :
          returned[i][1] = returned[j][1] => returned[i][2] = returned[j][2]
    /\ pc = "headings" =>
          /\ codeBlocks = DetectedBlocks
          /\ IndexFrom(html, "__CODE_BLOCK_", 1) = IndexFrom(html, Placeholder(0), 1)

\* a text with fences parsed, another text parsed, the first text parsed again
C5_Witness ==
    /\ pc = "done"
    /\ Len(returned) = 3
    /\ returned[1][1] = returned[3][1]
    /\ returned[2][1] # returned[1][1]
    /\ Len(codeBlocks) = 2

(***************************************************************************)
(* Documents with headings: one parseMarkdown call on a text of at most    *)
(* MaxHeadingLines of the lines below.                                     *)
(***************************************************************************)
MaxHeadingLines == 2

HeadingPieces ==
    {Hashes(n) \o " H" \o LF : n \in 1..7}
        \cup {"# Two words" \o LF, "## H" \o CR \o LF, "#H" \o LF, "text" \o LF, LF}

HeadingInputs == Texts(HeadingPieces, MaxHeadingLines)

HeadingCall == ParseCall(HeadingInputs, 1)

NextHeading == HeadingCall \/ ParseSteps

SpecHeading == Init /\ [][NextHeading]_vars

\* the lines of the call's text
InputLines == Split(Normalized(input), LF, 1)

\* a text of letters, digits and spaces
Plain(text) ==
    /\ text # ""
    /\ \A k \in 1..Len(text) : Ch(text, k) \in (WordChars \ {"_"}) \cup {" "}

\* line is n '#' characters, one space and a plain text
HeadingLine(line, n) ==
    /\ StartsWith(line, Hashes(n) \o " ")
    /\ Plain(From(line, n + 2))

HeadingElement(line, n) ==
    "<" \o HeadingTag(n) \o ">" \o From(line, n + 2) \o "</" \o HeadingTag(n) \o ">"

RECURSIVE Sum(_)
Sum(ns) == IF ns = <<>> THEN 0 ELSE Head(ns) + Sum(Tail(ns))

\* the '#' characters of the lines that are not heading lines
OtherHashes ==
    Sum([i \in 1..Len(InputLines) |->
            IF \E n \in 1..6 : HeadingLine(InputLines[i], n) THEN 0
            ELSE CharCount(InputLines[i], "#")])

(***************************************************************************)
(* C7.  Heading precedence: for every level n in 1..6, a line of exactly   *)
(* n '#' characters, one space and a plain text T is in the returned HTML  *)
(* as <hn>T</hn>; the HTML has as many level-n heading elements as the     *)
(* text has such lines, and no '#' but those of the other lines.           *)
(***************************************************************************)
C7_HeadingPrecedence ==
    Returned =>
        /\ \A n \in 1..6 :
              /\ \A i \in 1..Len(InputLines) :
                    HeadingLine(InputLines[i], n) =>
                        Contains(html, HeadingElement(InputLines[i], n))
              /\ Count(html, "<" \o HeadingTag(n) \o ">")
                    = Cardinality({i \in 1..Len(InputLines) : HeadingLine(InputLines[i], n)})
        /\ CharCount(html, "#") = OtherHashes

\* a six-marker line and a one-marker line, rendered
C7_Witness ==
    /\ pc = "done"
    /\ input = "###### H" \o LF \o "# H" \o LF
    /\ html = "<h6>H</h6>" \o LF \o "<h1>H</h1>"

(***************************************************************************)
(* Documents with lists: one parseMarkdown call on a text of at most       *)
(* MaxListLines of the lines below.                                        *)
(***************************************************************************)
MaxListLines == 3

ListPieces == {"- a" \o LF, "- b c" \o LF, "- " \o LF, "-a" \o LF, "text" \o LF, LF}

ListInputs == Texts(ListPieces, MaxListLines)

ListCall == ParseCall(ListInputs, 1)

NextList == ListCall \/ ParseSteps

SpecList == Init /\ [][NextList]_vars

\* the lengths of the maximal runs of consecutive lines that open with "- "
RECURSIVE RunLengths(_, _, _)
RunLengths(lines, i, run) ==
    IF i > Len(lines) THEN (IF run = 0 THEN <<>> ELSE <<run>>)
    ELSE IF StartsWith(lines[i], "- ") THEN RunLengths(lines, i + 1, run + 1)
    ELSE (IF run = 0 THEN <<>> ELSE <<run>>) \o RunLengths(lines, i + 1, 0)

\* the number of <li> elements in each <ul> element of s, in order
RECURSIVE UlItemCounts(_, _)
UlItemCounts(s, from) ==
    LET open == IndexFrom(s, "<ul>", from)
        close == IF open = 0 THEN 0 ELSE IndexFrom(s, "</ul>", open)
    IN  IF open = 0 \/ close = 0 THEN <<>>
        ELSE <<Count(SubSeq(s, open, close - 1), "<li>")>> \o UlItemCounts(s, close + 5)

(***************************************************************************)
(* C8.  List grouping: the returned HTML has one <ul> element for each     *)
(* maximal run of consecutive lines opening with "- ", in order, with one  *)
(* <li> for each line of the run, and no <li> outside these; runs that a   *)
(* non-list or blank line separates are separate <ul> elements.  Stated    *)
(* as the claim states it.                                                 *)
(***************************************************************************)
C8_ListGrouping ==
    Returned =>
        /\ UlItemCounts(html, 1) = RunLengths(InputLines, 1, 0)
        /\ Count(html, "<li>") = Sum(RunLengths(InputLines, 1, 0))

(***************************************************************************)
(* A page with one code element: highlightCodeBlocks on a document that    *)
(* holds <pre><code class="language-L">, L a supported language, with a    *)
(* code text of at most MaxCodeParts of the pieces below, escaped.         *)
(***************************************************************************)
MaxCodeParts == 2

CodePieces == {"// ", "return", " x ", LF, "1", DQ \o "s" \o DQ, "<"}

CodeTexts == Texts(CodePieces, MaxCodeParts)

CodeLanguages == {"cpp", "python", "js"}

\* the document as it is when highlightCodeBlocks is called
InitCode ==
    /\ \E code \in CodeTexts, language \in CodeLanguages :
          container = CodeHtml([language |-> language, code |-> escapeHtml(code)])
    /\ dom = CodeElements(container)
    /\ pc = "highlight"
    /\ input = ""
    /\ html = ""
    /\ codeBlocks = <<>>
    /\ calls = 0
    /\ returned = <<>>
    /\ response = NoResponse
    /\ SiteIdle

NextCode == HighlightCodeBlocks

SpecCode == InitCode /\ [][NextCode]_vars

\* the code elements as they were before highlighting
CodeBefore == CodeElements(container)

\* the occurrences of w in s as a whole word
WordPlaces(s, w) ==
    {k \in 1..Len(s) : StartsAt(s, k, w) /\ WordBoundary(s, k) /\ WordBoundary(s, k + Len(w))}

\* the part of a line from its first "//" on, "" without one
LineComment(line) ==
    LET k == IndexFrom(line, "//", 1)
    IN  IF k = 0 THEN "" ELSE From(line, k)

\* the part of a line before its first "//"
BeforeComment(line) ==
    LET k == IndexFrom(line, "//", 1)
    IN  IF k = 0 THEN line ELSE SubSeq(line, 1, k - 1)

\* the occurrences of return outside the line comments of code
ReturnsOutside(code) ==
    LET lines == Split(code, LF, 1)
    IN  Sum([i \in 1..Len(lines) |-> Cardinality(WordPlaces(BeforeComment(lines[i]), "return"))])

HasReturnComment(code) ==
    LET lines == Split(code, LF, 1)
    IN  \E i \in 1..Len(lines) : WordPlaces(LineComment(lines[i]), "return") # {}

(***************************************************************************)
(* C9.  Highlighter ordering: when a C-family code text has a line comment *)
(* with the word return inside it, the output of highlightCppLike opens a  *)
(* code-comment span at the comment, and has no more code-keyword spans    *)
(* around return than the text has occurrences of return outside its       *)
(* comments.  Stated as the claim states it.                               *)
(***************************************************************************)
C9_HighlighterOrdering ==
    pc = "done" =>
        \A i \in 1..Len(dom) :
            (LanguageOf(dom[i].className) = "cpp" /\ HasReturnComment(CodeBefore[i].innerHTML)) =>
                /\ Contains(dom[i].innerHTML, SpanOpen("comment") \o "//")
                /\ Count(dom[i].innerHTML, SpanOpen("keyword") \o "return" \o SpanClose)
                      = ReturnsOutside(CodeBefore[i].innerHTML)

\* s without its tags: each '<' up to the next '>' deleted
RECURSIVE StripTags(_)
StripTags(s) ==
    LET open == IndexFrom(s, "<", 1)
        close == IF open = 0 THEN 0 ELSE IndexFrom(s, ">", open)
    IN  IF open = 0 \/ close = 0 THEN s
        ELSE SubSeq(s, 1, open - 1) \o StripTags(From(s, close + 1))

(***************************************************************************)
(* C10.  The highlighter does not alter the visible text: for each of the  *)
(* three highlighters and every escaped code text c, the output with its   *)
(* tags deleted is c.  Stated as the claim states it.                      *)
(***************************************************************************)
C10_VisibleText ==
    pc = "done" =>
        \A i \in 1..Len(dom) : StripTags(dom[i].innerHTML) = CodeBefore[i].innerHTML

(***************************************************************************)
(* A page with one code element of any language tag: highlightCodeBlocks   *)
(* on a document that holds <pre><code class="language-T">, or class=""    *)
(* for no tag, with a code text of at most MaxTaggedParts pieces.          *)
(***************************************************************************)
MaxTaggedParts == 2

TaggedPieces == {"int ", "def ", "let ", "1", "int def let "}

TaggedTexts == Texts(TaggedPieces, MaxTaggedParts)

LanguageTags ==
    {"cpp", "c", "csharp", "python", "javascript", "js",
     "", "rust", "cp", "pythons", "JS", "java"}

InitTagged ==
    /\ \E code \in TaggedTexts, language \in LanguageTags :
          container = CodeHtml([language |-> language, code |-> escapeHtml(code)])
    /\ dom = CodeElements(container)
    /\ pc = "highlight"
    /\ input = ""
    /\ html = ""
    /\ codeBlocks = <<>>
    /\ calls = 0
    /\ returned = <<>>
    /\ response = NoResponse
    /\ SiteIdle

NextTagged == HighlightCodeBlocks

SpecTagged == InitTagged /\ [][NextTagged]_vars

\* the language tag of a class attribute the restorer writes
TagOf(className) ==
    IF StartsWith(className, "language-") THEN From(className, 10) ELSE ""

\* the three tokenizers give three different results on c, none of them c
Telling(c) ==
    Cardinality({c, highlightCppLike(c), highlightPython(c), highlightJavaScript(c)}) = 4

(***************************************************************************)
(* C11.  Language dispatch: after highlightCodeBlocks, the content of a    *)
(* code element is the C-family tokenizer's result when its tag is cpp, c  *)
(* or csharp, the Python tokenizer's when it is python, the JavaScript     *)
(* tokenizer's when it is javascript or js, and its content before the     *)
(* call for any other tag or none; on a text the tokenizers tell apart,    *)
(* each result is there for these tags only.                               *)
(***************************************************************************)
C11_Dispatch ==
    pc = "done" =>
        \A i \in 1..Len(dom) :
            LET tag == TagOf(dom[i].className)
                before == CodeBefore[i].innerHTML
                after == dom[i].innerHTML
            IN  /\ tag \in {"cpp", "c", "csharp"} => after = highlightCppLike(before)
                /\ tag = "python" => after = highlightPython(before)
                /\ tag \in {"javascript", "js"} => after = highlightJavaScript(before)
                /\ tag \notin {"cpp", "c", "csharp", "python", "javascript", "js"}
                      => after = before
                /\ Telling(before) =>
                      /\ after = highlightCppLike(before) => tag \in {"cpp", "c", "csharp"}
                      /\ after = highlightPython(before) => tag = "python"
                      /\ after = highlightJavaScript(before) => tag \in {"javascript", "js"}

\* an alias tag on a text the three tokenizers tell apart
C11_Witness ==
    /\ pc = "done"
    /\ Len(dom) = 1
    /\ TagOf(dom[1].className) = "csharp"
    /\ Telling(CodeBefore[1].innerHTML)
    /\ dom[1].innerHTML = highlightCppLike(CodeBefore[1].innerHTML)

(***************************************************************************)
(* loadBlogPost: the container is looked up, shows the loading state, the  *)
(* fetch settles, the body is read, and the text is parsed, inserted and   *)
(* highlighted; a rejection or a status that is not OK goes to the catch   *)
(* block.  The text is of at most MaxLoadParts of the pieces below.        *)
(***************************************************************************)
MaxLoadParts == 2

LoadPieces == {"# T" \o LF, "text" \o LF, "- a" \o LF, ScriptFence, BoldFence}

LoadInputs == Texts(LoadPieces, MaxLoadParts)

Statuses == {200, 404, 500}

RejectMessages == {"Failed to fetch"}

\* container.innerHTML at the start of the load
Loading == "<p class=\"text-muted\">Loading...</p>"

\* the template literal of the catch block
ErrorHtml(message) ==
    LF \o "            <div class=\"error-message\">"
       \o LF \o "                <p>Failed to load blog post.</p>"
       \o LF \o "                <p class=\"text-muted text-sm\">" \o message \o "</p>"
       \o LF \o "            </div>"
       \o LF \o "        "

\* a response.ok that is true whatever the status
LaxResponseOk(status) == TRUE

\* response.ok: the status is in the range 200-299
ResponseOk(status) == status >= 200 /\ status <= 299

\* the message of the Error thrown for a response that is not OK
FailureMessage(status) == "Failed to load blog post: " \o ToString(status)

\* the catch block; its markup holds no pre code element
Catch(message) ==
    /\ container' = ErrorHtml(message)
    /\ dom' = <<>>
    /\ pc' = "failed"

\* loadBlogPost is called: the container lookup and the loading state, whose
\* markup holds no pre code element
LoadBlogPost ==
    /\ pc = "idle"
    /\ \E found \in BOOLEAN :
          IF found
          THEN /\ container' = Loading
               /\ dom' = <<>>
               /\ response' = [response EXCEPT !.state = "pending"]
               /\ pc' = "fetch"
          ELSE /\ pc' = "absent"
               /\ UNCHANGED <<container, dom, response>>
    /\ UNCHANGED <<input, html, codeBlocks, calls, returned, siteVars>>

\* await fetch(...) rejects
FetchRejects ==
    /\ pc = "fetch"
    /\ \E message \in RejectMessages :
          /\ response' = [response EXCEPT !.state = "rejected", !.message = message]
          /\ Catch(message)
    /\ UNCHANGED <<input, html, codeBlocks, calls, returned, siteVars>>

\* await fetch(...) is fulfilled with a response; if (!response.ok) throw
FetchFulfils ==
    /\ pc = "fetch"
    /\ \E status \in Statuses :
          /\ response' = [response EXCEPT !.state = "fulfilled", !.status = status]
          /\ IF ResponseOk(status)
             THEN pc' = "text" /\ UNCHANGED <<container, dom>>
             ELSE Catch(FailureMessage(status))
    /\ UNCHANGED <<input, html, codeBlocks, calls, returned, siteVars>>

\* await response.text() is fulfilled and parseMarkdown(markdown) is entered
BodyArrives ==
    /\ pc = "text"
    /\ \E markdown \in LoadInputs :
          /\ input' = markdown
          /\ html' = markdown
    /\ response' = [response EXCEPT !.body = "read"]
    /\ calls' = calls + 1
    /\ pc' = "normalize"
    /\ UNCHANGED <<codeBlocks, returned, container, dom, siteVars>>

\* await response.text() rejects
BodyFails ==
    /\ pc = "text"
    /\ \E message \in RejectMessages :
          /\ response' = [response EXCEPT !.body = "failed", !.message = message]
          /\ Catch(message)
    /\ UNCHANGED <<input, html, codeBlocks, calls, returned, siteVars>>

NextLoad ==
    \/ LoadBlogPost
    \/ FetchRejects
    \/ FetchFulfils
    \/ BodyArrives
    \/ BodyFails
    \/ ParseSteps

SpecLoad == Init /\ [][NextLoad]_vars

\* the fetch rejected, or answered with a status outside 200-299
FetchFailed ==
    \/ response.state = "rejected"
    \/ response.state = "fulfilled" /\ response.status \notin 200..299

(***************************************************************************)
(* C12.  Load failure: once the fetch has rejected or answered with a      *)
(* status that is not OK, the container holds one error message with       *)
(* 'Failed to load blog post.' in it, once, and not the loading state; no  *)
(* parseMarkdown call was made, no parser output is in the container and   *)
(* the load has stopped short of highlightCodeBlocks.                      *)
(***************************************************************************)
C12_LoadFailure ==
    FetchFailed =>
        /\ pc = "failed"
        /\ Count(container, "<div class=\"error-message\">") = 1
        /\ Count(container, "Failed to load blog post.") = 1
        /\ ~Contains(container, "Loading...")
        /\ calls = 0
        /\ returned = <<>>
        /\ dom = <<>>

\* the server answered 404 and the container shows the error
C12_Witness ==
    /\ response.state = "fulfilled"
    /\ response.status = 404
    /\ pc = "failed"
    /\ Contains(container, "<p>Failed to load blog post.</p>")
    /\ Contains(container, FailureMessage(404))

\* the highlighter is invoked in this step
HighlighterRuns == pc = "highlight" /\ pc' = "done"

\* the container holds what the last parseMarkdown call returned
Inserted == returned # <<>> /\ container = returned[Len(returned)][2]

(***************************************************************************)
(* C13.  Ordering in loadBlogPost: the fetch is awaited with the loading   *)
(* state shown; the body is read only from a fulfilled fetch; the parser   *)
(* is entered only with the body read and the loading state still shown;   *)
(* the parser's output is inserted only once it has returned; and the      *)
(* highlighter is invoked only with that output in the container, which    *)
(* is then not the loading state.                                          *)
(***************************************************************************)
C13_Ordering ==
    [][/\ (response.state = "none" /\ response'.state = "pending") => container' = Loading
       /\ (response.state = "pending" /\ response'.state # "pending") => container = Loading
       /\ (response.body = "unread" /\ response'.body = "read")
             => response.state = "fulfilled" /\ container = Loading /\ returned = <<>>
       /\ (returned = <<>> /\ returned' # <<>>)
             => response.body = "read" /\ container = Loading
       /\ (~Inserted /\ Inserted') => returned # <<>> /\ pc' = "highlight"
       /\ HighlighterRuns => Inserted /\ container # Loading /\ response.body = "read"
      ]_vars

\* a post with a fenced block, loaded to the end
C13_Witness ==
    /\ pc = "done"
    /\ response.state = "fulfilled"
    /\ response.body = "read"
    /\ input = ScriptFence
    /\ Inserted

(***************************************************************************)
(* Documents that hold the text of a placeholder: one parseMarkdown call   *)
(* on a text of at most MaxLiteralParts of the pieces below, in which the  *)
(* text of a placeholder stands after "L:" outside the fences and after    *)
(* "M:" inside one.                                                        *)
(***************************************************************************)
MaxLiteralParts == 3

LiteralInputs ==
    Texts({"L:" \o Placeholder(0) \o ";" \o LF,
           "L:" \o Placeholder(1) \o ";" \o LF,
           Fence \o LF \o "M:" \o Placeholder(0) \o ";" \o LF \o Fence \o LF,
           Fence \o LF \o "M:" \o Placeholder(1) \o ";" \o LF \o Fence \o LF,
           ScriptFence,
           "text" \o LF}, MaxLiteralParts)

NextLiteral == ParseCall(LiteralInputs, 1) \/ ParseSteps

SpecLiteral == Init /\ [][NextLiteral]_vars

MaxNewlineParts == 3

NewlineInputs == Texts({CR, LF, CR \o LF, "a", "# H"}, MaxNewlineParts)

NextNewline == ParseCall(NewlineInputs, 1) \/ ParseSteps

SpecNewline == Init /\ [][NextNewline]_vars

\* s without the characters of C
RECURSIVE Without(_, _)
Without(s, C) ==
    IF s = "" THEN ""
    ELSE (IF Ch(s, 1) \in C THEN "" ELSE SubSeq(s, 1, 1)) \o Without(From(s, 2), C)

\* every carriage return of s is directly followed by a line feed
CrLfOnly(s) == \A k \in 1..Len(s) : Ch(s, k) = CR => StartsAt(s, k + 1, LF)

(***************************************************************************)
(* C15.  Newline normalization: the text handed to the extractor holds no  *)
(* carriage return, whatever the input's line endings were.  Stated as     *)
(* the claim states it.                                                    *)
(***************************************************************************)
C15_Normalization == pc = "extract" => ~Contains(html, CR)

(***************************************************************************)
(* C15, amended.  The text handed to the extractor is the input with each  *)
(* CR LF pair replaced by LF: the other characters are kept in order, the  *)
(* carriage returns left are those not directly followed by a line feed,   *)
(* and when every carriage return of the input is directly followed by a   *)
(* line feed the text holds no carriage return.                            *)
(***************************************************************************)
C15_CrLfNormalization ==
    pc = "extract" =>
        /\ Without(html, {CR}) = Without(input, {CR})
        /\ CharCount(html, CR)
              = Cardinality({k \in 1..Len(input) : Ch(input, k) = CR /\ ~StartsAt(input, k + 1, LF)})
        /\ CrLfOnly(input) => ~Contains(html, CR)

\* a text with CR LF line endings only, normalized
C15_Witness ==
    /\ pc = "extract"
    /\ input = "# H" \o CR \o LF \o "a"
    /\ html = "# H" \o LF \o "a"

(***************************************************************************)
(* escapeHtml on its own: a text of at most MaxEscapeParts of the pieces   *)
(* below is escaped.                                                       *)
(***************************************************************************)
MaxEscapeParts == 3

EscapeTexts == Texts({"&", "<", ">", DQ, SQ, "a", "amp;"}, MaxEscapeParts)

InitEscape ==
    /\ input \in EscapeTexts
    /\ pc = "escape"
    /\ html = ""
    /\ codeBlocks = <<>>
    /\ calls = 0
    /\ returned = <<>>
    /\ response = NoResponse
    /\ SiteIdle
    /\ container = ""
    /\ dom = <<>>

\* escapeHtml(text) returns
EscapeCall ==
    /\ pc = "escape"
    /\ html' = escapeHtml(input)
    /\ pc' = "escaped"
    /\ UNCHANGED <<input, codeBlocks, calls, returned, container, dom, response, siteVars>>

NextEscape == EscapeCall

SpecEscape == InitEscape /\ [][NextEscape]_vars

Entities == {"&amp;", "&lt;", "&gt;", "&quot;", "&#39;"}

\* the character an entity stands for
Decoded(entity) ==
    CASE entity = "&amp;" -> "&"
      [] entity = "&lt;" -> "<"
      [] entity = "&gt;" -> ">"
      [] entity = "&quot;" -> DQ
      [] entity = "&#39;" -> SQ

\* s with the five entities decoded, left to right, each character read once
RECURSIVE DecodeFrom(_, _)
DecodeFrom(s, i) ==
    IF i > Len(s) THEN ""
    ELSE LET E == {e \in Entities : StartsAt(s, i, e)}
         IN  IF E = {} THEN Ch(s, i) \o DecodeFrom(s, i + 1)
             ELSE LET e == CHOOSE e \in E : TRUE
                  IN  Decoded(e) \o DecodeFrom(s, i + Len(e))

(***************************************************************************)
(* C16.  escapeHtml: the output holds none of the characters < > " ';      *)
(* every & of the output starts one of the entities &amp; &lt; &gt; &quot; *)
(* &#39;; decoding the five entities in the output gives back the input;   *)
(* and the output is longer than the input by the entities' lengths, 4     *)
(* more for each & and ', 3 for each < and >, 5 for each ".                *)
(***************************************************************************)
C16_EscapeHtml ==
    pc = "escaped" =>
        /\ \A k \in 1..Len(html) : Ch(html, k) \notin {"<", ">", DQ, SQ}
        /\ \A k \in 1..Len(html) : Ch(html, k) = "&" => \E e \in Entities : StartsAt(html, k, e)
        /\ DecodeFrom(html, 1) = input
        /\ Len(html) = Len(input)
              + 4 * (CharCount(input, "&") + CharCount(input, SQ))
              + 3 * (CharCount(input, "<") + CharCount(input, ">"))
              + 5 * CharCount(input, DQ)

\* a tag opener, an ampersand and an apostrophe, escaped
C16_Witness ==
    /\ pc = "escaped"
    /\ input = "<" \o "&" \o SQ
    /\ html = "&lt;&amp;&#39;"

(***************************************************************************)
(* Documents made of fence lines: one parseMarkdown call on a text of at   *)
(* most MaxExtractParts of the pieces below: an opening fence with a tag,  *)
(* a fence before a line feed, a fence, and content with spaces and with   *)
(* HTML metacharacters.                                                    *)
(***************************************************************************)
MaxExtractParts == 4

ExtractInputs ==
    Texts({Fence \o "js" \o LF, Fence \o LF, Fence, " x ", "<b>" \o LF, "text" \o LF},
          MaxExtractParts)

NextExtract == ParseCall(ExtractInputs, 1) \/ ParseSteps

SpecExtract == Init /\ [][NextExtract]_vars

\* a complete fence of s starts at k: a fence, a word or nothing, a line feed,
\* and a fence somewhere after it
CompleteFenceAt(s, k) ==
    /\ StartsAt(s, k, Fence)
    /\ StartsAt(s, RunEnd(s, k + 3, WordChars), LF)
    /\ IndexFrom(s, Fence, RunEnd(s, k + 3, WordChars) + 1) # 0

\* text from position e on is source from position n on with the fences of the
\* records i, i+1, ... replaced, in order, by the placeholders i-1, i, ...: no
\* complete fence starts before or between them, each fence opens with the
\* record's language and a line feed, closes at the first fence after that, and
\* the record's code, decoded, is what stands between, trimmed
RECURSIVE Accounts(_, _, _, _, _, _)
Accounts(text, e, source, n, blocks, i) ==
    IF i > Len(blocks)
    THEN /\ From(text, e) = From(source, n)
         /\ \A k \in n..Len(source) : ~CompleteFenceAt(source, k)
    ELSE LET p == IndexFrom(text, Placeholder(i - 1), e)
             open == n + (p - e)
             body == open + 3 + Len(blocks[i].language) + 1
             close == IndexFrom(source, Fence, body)
         IN  /\ p # 0
             /\ SubSeq(text, e, p - 1) = SubSeq(source, n, open - 1)
             /\ \A k \in n..(open - 1) : ~CompleteFenceAt(source, k)
             /\ StartsAt(source, open, Fence \o blocks[i].language \o LF)
             /\ \A k \in 1..Len(blocks[i].language) : Ch(blocks[i].language, k) \in WordChars
             /\ close # 0
             /\ DecodeFrom(blocks[i].code, 1) = Trim(SubSeq(source, body, close - 1))
             /\ \A k \in 1..Len(blocks[i].code) :
                   Ch(blocks[i].code, k) \notin {"<", ">", DQ, SQ}
             /\ ~Contains(blocks[i].code, Fence)
             /\ Accounts(text, p + Len(Placeholder(i - 1)), source, close + 3, blocks, i + 1)

(***************************************************************************)
(* C17.  Extractor: the text after extraction is the normalized text with  *)
(* each complete fence, in order, replaced by the placeholders numbered    *)
(* 0, 1, 2, ..., one record for each and none passed over; a fence         *)
(* closes at the first triple backtick after its opening line, so no       *)
(* record's code holds one; the code is what stood between, trimmed and    *)
(* escaped once, and the language is the word after the opening fence,     *)
(* empty when there is none.                                               *)
(***************************************************************************)
C17_Extractor ==
    pc = "headings" =>
        /\ Accounts(html, 1, Normalized(input), 1, codeBlocks, 1)
        /\ \A i \in 1..Len(codeBlocks) : Count(html, Placeholder(i - 1)) = 1
        /\ Count(html, "__CODE_BLOCK_") = Len(codeBlocks)

\* a js fence after a line of text, with content to trim and to escape
C17_Witness ==
    /\ pc = "headings"
    /\ input = "text" \o LF \o Fence \o "js" \o LF \o "<b>" \o LF \o Fence
    /\ html = "text" \o LF \o Placeholder(0)
    /\ codeBlocks = <<[language |-> "js", code |-> "&lt;b&gt;"]>>

(***************************************************************************)
(* Documents whose code holds '$' and '&': one parseMarkdown call on a     *)
(* text of at most MaxRestoreParts of the pieces below.                    *)
(***************************************************************************)
MaxRestoreParts == 3

RestoreInputs ==
    Texts({Fence \o "sh" \o LF \o "echo $$ $&" \o LF \o Fence \o LF,
           Fence \o LF \o "a & b" \o LF \o Fence \o LF,
           "# T" \o LF, "text" \o LF, LF}, MaxRestoreParts)

NextRestore == ParseCall(RestoreInputs, 1) \/ ParseSteps

SpecRestore == Init /\ [][NextRestore]_vars

\* the rendering of a record: the code element carries the class language-T, or
\* no language class when the record has no tag
Renderings(block) ==
    IF block.language # ""
    THEN {"<pre><code class=\"language-" \o block.language \o "\">" \o block.code \o "</code></pre>"}
    ELSE {"<pre><code class=\"\">" \o block.code \o "</code></pre>",
          "<pre><code>" \o block.code \o "</code></pre>"}

MaxParagraphParts == 3

ParagraphInputs ==
    Texts({"# H" \o LF, "- a" \o LF, "text" \o LF, "<p>x</p>" \o LF, "<hr>" \o LF, " " \o LF, LF},
          MaxParagraphParts)

NextParagraph == ParseCall(ParagraphInputs, 1) \/ ParseSteps

SpecParagraph == Init /\ [][NextParagraph]_vars

\* b with each line feed replaced by <br>
RECURSIVE Breaks(_)
Breaks(b) ==
    IF b = "" THEN ""
    ELSE (IF Ch(b, 1) = LF THEN "<br>" ELSE Ch(b, 1)) \o Breaks(From(b, 2))

\* what a block gives: itself, trimmed, when it opens with one of the openers,
\* nothing when it is empty, one paragraph otherwise
Emitted(rawBlock, openers) ==
    LET b == Trim(rawBlock)
    IN  IF \E o \in openers : StartsWith(b, o) THEN b
        ELSE IF b = "" THEN ""
        ELSE "<p>" \o Breaks(b) \o "</p>"

\* the blocks of s, cut at each empty line, emitted and put on lines of their own
RECURSIVE Assembled(_, _)
Assembled(s, openers) ==
    LET k == IndexFrom(s, LF \o LF, 1)
    IN  IF k = 0 THEN Emitted(s, openers)
        ELSE Emitted(SubSeq(s, 1, k - 1), openers) \o LF \o Assembled(From(s, k + 2), openers)

\* the openings of a heading element, a list container and a placeholder token
ClaimedOpeners == {"<h1>", "<h2>", "<h3>", "<h4>", "<h5>", "<h6>", "<ul>", "__CODE_BLOCK_"}

(***************************************************************************)
(* C19.  Paragraph assembler: the text is cut at the empty lines and each  *)
(* block, trimmed, is emitted unchanged if and only if it opens with a     *)
(* heading element, a list container or a placeholder token; an empty      *)
(* block gives nothing; every other block gives one <p>...</p> with <br>   *)
(* for each line feed.  Stated as the claim states it.                     *)
(***************************************************************************)
C19_Assembler ==
    [][pc = "paragraphs" => html' = Assembled(html, ClaimedOpeners)]_vars

(***************************************************************************)
(* C19, amended.  As above, but a block is emitted unchanged if and only   *)
(* if it starts with "<h", "<ul", "<p" or "__CODE_BLOCK_".                 *)
(***************************************************************************)
C19_AssemblerPrefixes ==
    [][pc = "paragraphs" => html' = Assembled(html, {"<h", "<ul", "<p", "__CODE_BLOCK_"})]_vars

\* a text block, an empty block and a block that is a paragraph already
C19_Witness ==
    /\ pc = "restore"
    /\ input = "text" \o LF \o LF \o "<p>x</p>" \o LF
    /\ html = "<p>text</p>" \o LF \o "<p>x</p>"

\* the classes of the spans the highlighters insert
SpanClasses == {"comment", "string", "number", "keyword", "type"}

\* the places of s where a span tag opens
SpanPlaces(s) == {k \in 1..Len(s) : StartsAt(s, k, "<span")}

\* the tag that opens at k is an inserted tag as it was written
IntactTag(s, k) == \E c \in SpanClasses : StartsAt(s, k, SpanOpen(c))

\* the opening and closing tags from i on are balanced, depth spans being open at i
RECURSIVE Nested(_, _, _)
Nested(s, i, depth) ==
    IF i > Len(s) THEN depth = 0
    ELSE IF StartsAt(s, i, "<span") THEN Nested(s, i + 5, depth + 1)
    ELSE IF StartsAt(s, i, SpanClose) THEN depth > 0 /\ Nested(s, i + Len(SpanClose), depth - 1)
    ELSE Nested(s, i + 1, depth)

(***************************************************************************)
(* C20.  Highlighter passes do not overlap wrap boundaries: in the output  *)
(* of each highlighter the inserted spans are disjoint or properly nested, *)
(* and no pass wraps the markup of a span of an earlier pass: every span   *)
(* tag of the output is <span class="code-C"> as it was inserted, with     *)
(* neither class nor the value wrapped.  Stated as the claim states it.    *)
(***************************************************************************)
C20_WrapBoundaries ==
    pc = "done" =>
        \A i \in 1..Len(dom) :
            /\ \A k \in SpanPlaces(dom[i].innerHTML) : IntactTag(dom[i].innerHTML, k)
            /\ ~Contains(dom[i].innerHTML, SpanOpen("keyword") \o "class" \o SpanClose)
            /\ Nested(dom[i].innerHTML, 1, 0)

(***************************************************************************)
(* A page with one Python code element: highlightCodeBlocks on a document  *)
(* that holds <pre><code class="language-python"> with a code text of at   *)
(* most MaxPythonParts of the pieces below.                                *)
(***************************************************************************)
MaxPythonParts == 3

PythonPieces == {"def ", "f", "(x):", LF, "# ", "1"}

PythonTexts == Texts(PythonPieces, MaxPythonParts)

InitPython ==
    /\ \E code \in PythonTexts :
          container = CodeHtml([language |-> "python", code |-> escapeHtml(code)])
    /\ dom = CodeElements(container)
    /\ pc = "highlight"
    /\ input = ""
    /\ html = ""
    /\ codeBlocks = <<>>
    /\ calls = 0
    /\ returned = <<>>
    /\ response = NoResponse
    /\ SiteIdle

NextPython == HighlightCodeBlocks

SpecPython == InitPython /\ [][NextPython]_vars

\* the places of code where def stands as a word, followed by whitespace and
\* an identifier
DefPlaces(code) ==
    {k \in 1..Len(code) :
        /\ StartsAt(code, k, "def")
        /\ WordBoundary(code, k)
        /\ RunEnd(code, k + 3, WhiteSpace) > k + 3
        /\ IsWord(code, RunEnd(code, k + 3, WhiteSpace))
        /\ Ch(code, RunEnd(code, k + 3, WhiteSpace)) \notin Digits}

\* the identifier after the def at k
DefName(code, k) ==
    LET n == RunEnd(code, k + 3, WhiteSpace)
    IN  SubSeq(code, n, RunEnd(code, n, WordChars) - 1)

(***************************************************************************)
(* C21.  Python function names: for every Python code text with def,       *)
(* whitespace and an identifier N, the output of highlightPython holds N   *)
(* wrapped in a code-function span.  Stated as the claim states it.        *)
(***************************************************************************)
C21_FunctionNames ==
    pc = "done" =>
        \A i \in 1..Len(dom) :
            \A k \in DefPlaces(CodeBefore[i].innerHTML) :
                Contains(dom[i].innerHTML,
                         SpanOpen("function") \o DefName(CodeBefore[i].innerHTML, k) \o SpanClose)

(***************************************************************************)
(* js/navigation.js.  The page has nav links, folder headers and, on some  *)
(* pages, a menu button, a sidebar and a main content element.  The        *)
(* DOMContentLoaded listener calls the three init functions in turn; the   *)
(* functions are also exported, and a script may call one directly.  A     *)
(* page is initialized once.                                               *)
(***************************************************************************)
BlogIdle ==
    /\ input = ""
    /\ html = ""
    /\ codeBlocks = <<>>
    /\ pc = "idle"
    /\ calls = 0
    /\ returned = <<>>
    /\ container = ""
    /\ dom = <<>>
    /\ response = NoResponse

\* every script but one has not run
IdleBut(script) ==
    /\ IF script = "blog" THEN TRUE ELSE BlogIdle
    /\ IF script = "navigation" THEN TRUE ELSE NavIdle
    /\ IF script = "theme" THEN TRUE ELSE ThemeIdle
    /\ IF script = "activity" THEN TRUE ELSE ActivityIdle
    /\ IF script = "overlap" THEN TRUE ELSE OverlapIdle

\* the href attributes of the .nav-link elements
NavLinks == {"index.html", "../index.html", "./", "pages/blogs.html", "blogs.html", "projects.html"}

Pathnames == {"/", "/index.html", "/pages/blogs.html", "/pages/projects.html", "/pages/activity.html"}

Folders == {"cpp", "systems"}

\* the pages: with the menu button, the sidebar and the main content, without
\* the main content, and without the menu button
ElementSets ==
    {{"menuToggle", "sidebar", "mainContent"}, {"menuToggle", "sidebar"}, {"sidebar", "mainContent"}}

MobileWidth == 768

Widths == {480, MobileWidth, MobileWidth + 1}

MaxClicks == 3

\* the menu button's two labels, U+2630 and U+2715
Bars == "U+2630"

Cross == "U+2715"

InitNavigation ==
    /\ IdleBut("navigation")
    /\ location \in Pathnames
    /\ navPc = "loading"
    /\ thrown = ""
    /\ active = {}
    /\ elements \in ElementSets
    /\ listeners = {}
    /\ folderOpen = [f \in Folders |-> FALSE]
    /\ ariaExpanded = [f \in Folders |-> "false"]
    /\ clicks = [f \in Folders |-> 0]
    /\ sidebarOpen = FALSE
    /\ toggleText = Bars
    /\ toggleExpanded = "false"
    /\ innerWidth \in Widths
    /\ event = [type |-> "none", target |-> ""]

\* path.split('/') and its last part
LastPart(path) ==
    LET parts == Split(path, "/", 1)
    IN  parts[Len(parts)]

\* initActiveNavigation: the read of pathParts, a name that no declaration of
\* the script binds, throws before any link is looked at
initActiveNavigation ==
    [thrown |-> "ReferenceError: pathParts is not defined", active |-> active]

\* initFolderTree: the targets that get a listener
initFolderTree == {"folderHeader"}

\* initMobileMenu: the targets that get a listener on a page with the elements E
initMobileMenu(E) ==
    IF "menuToggle" \notin E \/ "sidebar" \notin E THEN {}
    ELSE {"menuToggle", "resize"} \cup (IF "mainContent" \in E THEN {"mainContent"} ELSE {})

\* the DOMContentLoaded listener: an error thrown by a call ends the listener
DOMContentLoaded ==
    /\ navPc = "loading"
    /\ navPc' = "ready"
    /\ event' = [type |-> "DOMContentLoaded", target |-> "document"]
    /\ LET first == initActiveNavigation
       IN  /\ thrown' = first.thrown
           /\ active' = first.active
           /\ listeners' = IF first.thrown # "" THEN listeners
                           ELSE listeners \cup initFolderTree \cup initMobileMenu(elements)
    /\ UNCHANGED <<location, elements, folderOpen, ariaExpanded, clicks, sidebarOpen,
                   toggleText, toggleExpanded, innerWidth, notNav>>

\* a script calls the exported initFolderTree
InitFolderTreeCall ==
    /\ "folderHeader" \notin listeners
    /\ listeners' = listeners \cup initFolderTree
    /\ event' = [type |-> "call", target |-> "initFolderTree"]
    /\ UNCHANGED <<location, navPc, thrown, active, elements, folderOpen, ariaExpanded, clicks,
                   sidebarOpen, toggleText, toggleExpanded, innerWidth, notNav>>

\* a script calls the exported initMobileMenu
InitMobileMenuCall ==
    /\ "resize" \notin listeners
    /\ initMobileMenu(elements) # {}
    /\ listeners' = listeners \cup initMobileMenu(elements)
    /\ event' = [type |-> "call", target |-> "initMobileMenu"]
    /\ UNCHANGED <<location, navPc, thrown, active, elements, folderOpen, ariaExpanded, clicks,
                   sidebarOpen, toggleText, toggleExpanded, innerWidth, notNav>>

\* setAttribute with a boolean writes its string
BoolString(b) == IF b THEN "true" ELSE "false"

\* a class list that holds only the class 'open', as a boolean: classList.add
add(has) == TRUE

\* classList.toggle
toggle(has) == ~has

\* a click on the header of folder f, handled by the listener of initFolderTree
ClickFolderHeader ==
    \E f \in Folders :
        /\ "folderHeader" \in listeners
        /\ clicks[f] < MaxClicks
        /\ clicks' = [clicks EXCEPT ![f] = @ + 1]
        /\ event' = [type |-> "click", target |-> f]
        /\ folderOpen' = [folderOpen EXCEPT ![f] = toggle(@)]
        /\ ariaExpanded' = [ariaExpanded EXCEPT ![f] = BoolString(toggle(folderOpen[f]))]
        /\ UNCHANGED <<location, navPc, thrown, active, elements, listeners, sidebarOpen,
                       toggleText, toggleExpanded, innerWidth, notNav>>

\* a click on the menu button
ClickMenuToggle ==
    /\ "menuToggle" \in listeners
    /\ event' = [type |-> "click", target |-> "menuToggle"]
    /\ sidebarOpen' = toggle(sidebarOpen)
    /\ toggleText' = IF toggle(sidebarOpen) THEN Cross ELSE Bars
    /\ toggleExpanded' = BoolString(toggle(sidebarOpen))
    /\ UNCHANGED <<location, navPc, thrown, active, elements, listeners, folderOpen,
                   ariaExpanded, clicks, innerWidth, notNav>>

\* window.innerWidth < 768
Narrow(width) == width < MobileWidth

\* window.innerWidth <= 768
Mobile(width) == width <= MobileWidth

\* a click on the main content, handled by the listener of initMobileMenu
ClickMainContent ==
    /\ "mainContent" \in listeners
    /\ event' = [type |-> "click", target |-> "mainContent"]
    /\ IF sidebarOpen /\ Mobile(innerWidth)
       THEN /\ sidebarOpen' = FALSE
            /\ toggleText' = Bars
            /\ toggleExpanded' = "false"
       ELSE UNCHANGED <<sidebarOpen, toggleText, toggleExpanded>>
    /\ UNCHANGED <<location, navPc, thrown, active, elements, listeners, folderOpen,
                   ariaExpanded, clicks, innerWidth, notNav>>

\* the window is resized to width w; the resize listener runs if added
Resize ==
    \E w \in Widths :
        /\ w # innerWidth
        /\ innerWidth' = w
        /\ event' = [type |-> "resize", target |-> "window"]
        /\ IF "resize" \in listeners /\ w > MobileWidth
           THEN /\ sidebarOpen' = FALSE
                /\ toggleText' = Bars
                /\ UNCHANGED toggleExpanded
           ELSE UNCHANGED <<sidebarOpen, toggleText, toggleExpanded>>
        /\ UNCHANGED <<location, navPc, thrown, active, elements, listeners, folderOpen,
                       ariaExpanded, clicks, notNav>>

NextNavigation ==
    \/ DOMContentLoaded
    \/ InitFolderTreeCall
    \/ InitMobileMenuCall
    \/ ClickFolderHeader
    \/ ClickMenuToggle
    \/ ClickMainContent
    \/ Resize

SpecNavigation == InitNavigation /\ [][NextNavigation]_vars

\* the file name of a path, an empty name counting as index.html
FileName(path) == IF LastPart(path) = "" THEN "index.html" ELSE LastPart(path)

(***************************************************************************)
(* C22.  Page initialization: once DOMContentLoaded has been dispatched,   *)
(* the listener has run to its end without an error, exactly the nav links *)
(* whose href file name equals the file name of the current page carry     *)
(* 'active', and the folder-header and menu listeners are added.  Stated   *)
(* as the claim states it.                                                 *)
(***************************************************************************)
C22_PageInitialization ==
    navPc = "ready" =>
        /\ thrown = ""
        /\ active = {l \in NavLinks : FileName(l) = FileName(location)}
        /\ "folderHeader" \in listeners
        /\ ("menuToggle" \in elements /\ "sidebar" \in elements) => "menuToggle" \in listeners

Click(target) == [type |-> "click", target |-> target]

Odd(n) == n % 2 = 1

(***************************************************************************)
(* C23.  Folder tree: once initFolderTree has added its listeners, a click *)
(* on a folder header toggles that header's own folder and changes no      *)
(* other folder, and sets the header's aria-expanded to the folder's new   *)
(* state; a folder, closed at the start, is open exactly when its header   *)
(* was clicked an odd number of times.                                     *)
(***************************************************************************)
C23_FolderTree ==
    /\ []("folderHeader" \in listeners => \A f \in Folders : folderOpen[f] <=> Odd(clicks[f]))
    /\ [][\A f \in Folders :
            event' = Click(f) =>
                /\ folderOpen'[f] = ~folderOpen[f]
                /\ ariaExpanded'[f] = BoolString(folderOpen'[f])
                /\ \A g \in Folders \ {f} :
                      folderOpen'[g] = folderOpen[g] /\ ariaExpanded'[g] = ariaExpanded[g]]_vars

\* one header clicked three times, the other twice
C23_Witness ==
    /\ "folderHeader" \in listeners
    /\ clicks["cpp"] = 3 /\ folderOpen["cpp"] /\ ariaExpanded["cpp"] = "true"
    /\ clicks["systems"] = 2 /\ ~folderOpen["systems"] /\ ariaExpanded["systems"] = "false"

(***************************************************************************)
(* C24.  Mobile menu: once initMobileMenu has added its listeners, a click *)
(* on the menu button toggles the sidebar; a click on the main content     *)
(* closes an open sidebar when the window is at most 768 wide and changes  *)
(* nothing otherwise; a resize to a width above 768 leaves the sidebar     *)
(* closed.                                                                 *)
(***************************************************************************)
C24_MobileMenu ==
    [][/\ event' = Click("menuToggle") => sidebarOpen' = ~sidebarOpen
       /\ event' = Click("mainContent") =>
             sidebarOpen' = (IF sidebarOpen /\ innerWidth <= 768 THEN FALSE ELSE sidebarOpen)
       /\ (event'.type = "resize" /\ "resize" \in listeners /\ innerWidth' > 768) => ~sidebarOpen']_vars

\* a resize above 768 has closed a sidebar that the menu button had opened
C24_Witness ==
    /\ event.type = "resize"
    /\ "resize" \in listeners
    /\ innerWidth > 768
    /\ ~sidebarOpen
    /\ toggleExpanded = "true"

(***************************************************************************)
(* C28.  Mobile menu indicators: once initMobileMenu has added its         *)
(* listeners, from a closed sidebar with the bars label, after any clicks  *)
(* and resizes the button shows the cross exactly when the sidebar is open *)
(* and its aria-expanded is true exactly when the sidebar is open.  Stated *)
(* as the claim states it.                                                 *)
(***************************************************************************)
C28_Indicators ==
    "resize" \in listeners =>
        /\ toggleText = Cross <=> sidebarOpen
        /\ toggleExpanded = "true" <=> sidebarOpen

(***************************************************************************)
(* js/theme.js.  initTheme runs on DOMContentLoaded; initTheme, setTheme   *)
(* and toggleTheme are exported; the button that initTheme creates calls   *)
(* toggleTheme on a click.  At most MaxThemeCalls calls are followed.      *)
(***************************************************************************)
MaxThemeCalls == 4

\* the themes a caller passes; the style sheets know dark and light
Themes == {"dark", "light", "sepia"}

\* the icons of the button, U+2600 and U+1F319
Sun == "U+2600"

Moon == "U+1F319"

InitTheme ==
    /\ IdleBut("theme")
    /\ dataTheme = Absent
    /\ stored \in {Absent, "dark", "light"}
    /\ themeIcon = "none"
    /\ themeTitle = ""
    /\ themeLog = <<>>

\* x || 'dark' for a string or null
OrDark(x) == IF x \in {Absent, ""} THEN "dark" ELSE x

IconOf(theme) == IF theme = "dark" THEN Sun ELSE Moon

TitleOf(theme) == IF theme = "dark" THEN "Switch to Light Mode" ELSE "Switch to Dark Mode"

\* setTheme(theme): the attribute, the stored item, and the button if there is one
setTheme(theme) ==
    /\ dataTheme' = theme
    /\ stored' = theme
    /\ IF themeIcon # "none"
       THEN themeIcon' = IconOf(theme) /\ themeTitle' = TitleOf(theme)
       ELSE UNCHANGED <<themeIcon, themeTitle>>

\* what a call leaves in the history
Logged(op) == [op |-> op, before |-> dataTheme, saved |-> stored, after |-> dataTheme']

\* initTheme: setTheme(savedTheme), then createThemeToggle, which reads the
\* stored item that setTheme has just written
InitThemeCall ==
    /\ Len(themeLog) < MaxThemeCalls
    /\ dataTheme' = OrDark(stored)
    /\ stored' = OrDark(stored)
    /\ themeIcon' = IconOf(OrDark(OrDark(stored)))
    /\ themeTitle' = TitleOf(OrDark(OrDark(stored)))
    /\ themeLog' = Append(themeLog, Logged("initTheme"))
    /\ UNCHANGED notTheme

SetThemeCall ==
    /\ Len(themeLog) < MaxThemeCalls
    /\ \E theme \in Themes : setTheme(theme)
    /\ themeLog' = Append(themeLog, Logged("setTheme"))
    /\ UNCHANGED notTheme

\* a toggle that keeps the theme
SameTheme(current) == current

\* const next = current === 'dark' ? 'light' : 'dark'
NextTheme(current) == IF current = "dark" THEN "light" ELSE "dark"

\* toggleTheme, called directly or by a click on the button
ToggleThemeCall ==
    /\ Len(themeLog) < MaxThemeCalls
    /\ setTheme(NextTheme(OrDark(dataTheme)))
    /\ themeLog' = Append(themeLog, Logged("toggleTheme"))
    /\ UNCHANGED notTheme

NextThemeStep == InitThemeCall \/ SetThemeCall \/ ToggleThemeCall

SpecTheme == InitTheme /\ [][NextThemeStep]_vars

(***************************************************************************)
(* C25.  Theme: after any calls of initTheme, setTheme and toggleTheme the *)
(* data-theme attribute equals the stored 'theme' item; initTheme applies  *)
(* the saved theme, or dark when none is saved; toggleTheme turns dark     *)
(* into light and light into dark, so two toggles in a row give back the   *)
(* theme and the stored item.                                              *)
(***************************************************************************)
C25_Theme ==
    /\ themeLog # <<>> => dataTheme = stored
    /\ \A i \in 1..Len(themeLog) :
          LET call == themeLog[i]
          IN  /\ call.op = "initTheme" =>
                    call.after = (IF call.saved = Absent THEN "dark" ELSE call.saved)
              /\ (call.op = "toggleTheme" /\ call.before = "dark") => call.after = "light"
              /\ (call.op = "toggleTheme" /\ call.before = "light") => call.after = "dark"
              /\ (/\ i < Len(themeLog)
                  /\ call.op = "toggleTheme"
                  /\ themeLog[i + 1].op = "toggleTheme"
                  /\ call.before \in {"dark", "light"}) =>
                    /\ themeLog[i + 1].after = call.before
                    /\ themeLog[i + 1].saved = call.after

\* a saved light theme applied by initTheme, then toggled twice
C25_Witness ==
    /\ Len(themeLog) = 3
    /\ themeLog[1].op = "initTheme" /\ themeLog[1].saved = "light"
    /\ themeLog[2].op = "toggleTheme"
    /\ themeLog[3].op = "toggleTheme"
    /\ dataTheme = "light"
    /\ stored = "light"
    /\ themeIcon = Moon

(***************************************************************************)
(* The activity page.  The repository holds two scripts for it,            *)
(* js/activity.js and a second one kept without a file name               *)
(* (unnamed/part_000); a page loads one of them.  The feed is rendered     *)
(* from the array the fetches filled: here an array of up to MaxRepeat     *)
(* copies of each of four items, two of which share title and time.        *)
(***************************************************************************)
Versions == {"js/activity.js", "unnamed/part_000"}

MaxRepeat == 4

\* slice(0, 10)
FeedLimit == 10

FeedItems ==
    <<[title |-> "Committed to r", time |-> 3, desc |-> "fix"],
      [title |-> "Committed to r", time |-> 3, desc |-> "docs"],
      [title |-> "Opened PR in r", time |-> 2, desc |-> "pr"],
      [title |-> "Solved s", time |-> 1, desc |-> "LeetCode Problem"]>>

Times == {FeedItems[i].time : i \in 1..Len(FeedItems)}

\* n copies of item
Copies(item, n) == [i \in 1..n |-> item]

\* the arrays: each item some number of times, oldest first or newest first
Collected ==
    {Copies(FeedItems[4], n[4]) \o Copies(FeedItems[3], n[3])
        \o Copies(FeedItems[2], n[2]) \o Copies(FeedItems[1], n[1]) :
            n \in [1..4 -> 0..MaxRepeat]}
    \cup
    {Copies(FeedItems[1], n[1]) \o Copies(FeedItems[2], n[2])
        \o Copies(FeedItems[3], n[3]) \o Copies(FeedItems[4], n[4]) :
            n \in [1..4 -> 0..MaxRepeat]}

InitFeed ==
    /\ IdleBut("activity")
    /\ version \in Versions
    /\ actPc = "render"
    /\ outcome = [github |-> "success", leetcode |-> "success", events |-> <<>>]
    /\ recentActivities \in Collected
    /\ activeDays = {}
    /\ heatmap = [state |-> "rendered", days |-> {}]
    /\ feed = [state |-> "loading", items |-> <<>>]

Test(item, t) == item.time = t

\* the items of the array with time t, in the array's order
AtTime(items, t) ==
    LET RECURSIVE Pick(_)
        Pick(i) == IF i > Len(items) THEN <<>>
                   ELSE (IF Test(items[i], t) THEN <<items[i]>> ELSE <<>>) \o Pick(i + 1)
    IN  Pick(1)

\* sort((a, b) => b.time - a.time): by time, newest first, equal times in
\* the array's order
SortByTime(items) ==
    LET RECURSIVE From_(_)
        From_(T) == IF T = {} THEN <<>>
                    ELSE AtTime(items, Max(T)) \o From_(T \ {Max(T)})
    IN  From_({items[i].time : i \in 1..Len(items)})

\* the dedup loop of renderFeed: the first item of each title and time
Dedup(items) ==
    LET Seen(i) == \E j \in 1..(i - 1) :
                       items[j].title = items[i].title /\ items[j].time = items[i].time
        RECURSIVE Keep(_)
        Keep(i) == IF i > Len(items) THEN <<>>
                   ELSE (IF Seen(i) THEN <<>> ELSE <<items[i]>>) \o Keep(i + 1)
    IN  Keep(1)

Slice(items, n) == SubSeq(items, 1, IF Len(items) < n THEN Len(items) ELSE n)

Shown(items) ==
    IF items = <<>> THEN [state |-> "empty", items |-> <<>>]
    ELSE [state |-> "list", items |-> items]

\* renderActivityFeed of js/activity.js: the container's new content
renderActivityFeed(items) == Shown(Slice(SortByTime(items), FeedLimit))

\* renderFeed of the second script
renderFeed(items) == Shown(Slice(Dedup(SortByTime(items)), FeedLimit))

\* the feed is rendered; the sort is in place
RenderFeed ==
    /\ actPc = "render"
    /\ actPc' = "done"
    /\ recentActivities' = SortByTime(recentActivities)
    /\ feed' = IF version = "js/activity.js" THEN renderActivityFeed(recentActivities)
               ELSE renderFeed(recentActivities)
    /\ UNCHANGED <<version, outcome, activeDays, heatmap, notActivity>>

NextFeed == RenderFeed

SpecFeed == InitFeed /\ [][NextFeed]_vars

Range(s) == {s[i] : i \in 1..Len(s)}

NonIncreasing(items) ==
    \A i \in 1..Len(items), j \in 1..Len(items) : i < j => items[i].time >= items[j].time

(***************************************************************************)
(* C26.  Activity feed: whatever was collected, the rendered feed shows at *)
(* most 10 items, in non-increasing order of time, and no collected item   *)
(* newer than a shown item is left out; when nothing was collected the     *)
(* feed shows the message and no list.  Stated as the claim states it.     *)
(***************************************************************************)
C26_Feed ==
    actPc = "done" =>
        /\ Len(feed.items) <= 10
        /\ NonIncreasing(feed.items)
        /\ Range(feed.items) \subseteq Range(recentActivities)
        /\ \A c \in Range(recentActivities), s \in Range(feed.items) :
              c.time > s.time => c \in Range(feed.items)
        /\ recentActivities = <<>> <=> feed.state = "empty"
        /\ feed.state = "list" => feed.items # <<>>

(***************************************************************************)
(* initActivity.  Each of the two sources settles in one of four ways: it  *)
(* delivers its data, answers with an HTTP error status, is rejected by    *)
(* the network, or answers with a payload that reports an error.           *)
(* js/activity.js awaits GitHub, then LeetCode, and renders in the         *)
(* continuation of the second await; the second script awaits both at once *)
(* with Promise.all and renders after it.                                  *)
(***************************************************************************)
Outcomes == {"success", "httpError", "rejected", "errorPayload"}

\* the moment processLeetCodeData runs, later than every event
Now == 9

PushEvent == [type |-> "PushEvent", action |-> "", time |-> 3, day |-> "d1"]

OpenedEvent == [type |-> "PullRequestEvent", action |-> "opened", time |-> 2, day |-> "d1"]

ReopenedEvent == [type |-> "PullRequestEvent", action |-> "reopened", time |-> 1, day |-> "d3"]

\* what GitHub delivers
GitHubPayloads == {<<PushEvent>>, <<PushEvent, OpenedEvent>>, <<ReopenedEvent>>, <<>>}

InitActivity ==
    /\ IdleBut("activity")
    /\ version \in Versions
    /\ actPc = "idle"
    /\ outcome = [github |-> "pending", leetcode |-> "pending", events |-> <<>>]
    /\ recentActivities = <<>>
    /\ activeDays = {}
    /\ heatmap = [state |-> "initial", days |-> {}]
    /\ feed = [state |-> "initial", items |-> <<>>]

\* the forEach callback over the events: the feed items an event gives
ItemsOf(e) ==
    IF e.type = "PushEvent"
    THEN <<[title |-> "Committed to r", time |-> e.time, desc |-> "fix"]>>
    ELSE IF e.type = "PullRequestEvent" /\ e.action \in {"opened", "closed"}
    THEN <<[title |-> (IF e.action = "opened" THEN "Opened" ELSE
                       IF version = "js/activity.js" THEN "Merged" ELSE "Closed") \o " PR in r",
            time |-> e.time, desc |-> "pr"]>>
    ELSE <<>>

\* the days an event marks active
DaysOf(e) ==
    IF e.type = "PushEvent" THEN {e.day}
    ELSE IF e.type = "PullRequestEvent"
              /\ (version = "unnamed/part_000" \/ e.action \in {"opened", "closed"})
    THEN {e.day}
    ELSE {}

RECURSIVE AllItems(_)
AllItems(events) ==
    IF events = <<>> THEN <<>> ELSE ItemsOf(Head(events)) \o AllItems(Tail(events))

AllDays(events) == UNION {DaysOf(events[i]) : i \in 1..Len(events)}

\* a fetch function without its catch: a failure is thrown to the caller
Uncaught(o) == o # "success"

\* fetchGitHubEvents, fetchLeetCodeData, fetchGitHubData: the catch inside
\* the function keeps every failure from the caller
Thrown(o) == FALSE

\* what LeetCode's data adds to the feed
LeetCodeItems ==
    IF version = "js/activity.js"
    THEN <<[title |-> "Solved 5 problems on LeetCode", time |-> Now, desc |-> "Easy: 1"]>>
    ELSE <<[title |-> "Solved s", time |-> 1, desc |-> "LeetCode Problem"]>>

\* renderUnifiedHeatmap, renderHeatmap
RenderedHeatmap(days) == [state |-> "rendered", days |-> days]

RenderedFeed(items) ==
    IF version = "js/activity.js" THEN renderActivityFeed(items) ELSE renderFeed(items)

\* both render calls, on the arrays as given
Render(items, days) ==
    /\ heatmap' = RenderedHeatmap(days)
    /\ feed' = RenderedFeed(items)
    /\ recentActivities' = SortByTime(items)
    /\ activeDays' = days
    /\ actPc' = "done"

\* initActivity up to its first await: showLoading
InitActivityCall ==
    /\ actPc = "idle"
    /\ actPc' = "fetching"
    /\ heatmap' = [state |-> "loading", days |-> {}]
    /\ feed' = IF version = "js/activity.js" THEN [state |-> "loading", items |-> <<>>] ELSE feed
    /\ UNCHANGED <<version, outcome, recentActivities, activeDays, notActivity>>

\* the GitHub fetch settles.  In js/activity.js the continuation processes
\* the events and starts the LeetCode fetch; a throw goes to the catch of
\* initActivity, which renders.  In the second script the events are
\* processed inside fetchGitHubData; a throw rejects Promise.all.
GitHubSettles ==
    /\ actPc = "fetching"
    /\ outcome.github = "pending"
    /\ \E o \in Outcomes, events \in GitHubPayloads :
          /\ o = "success" \/ events = <<>>
          /\ outcome' = [outcome EXCEPT !.github = o, !.events = events]
          /\ IF Thrown(o)
             THEN Render(recentActivities, activeDays)
             ELSE /\ recentActivities' = recentActivities \o AllItems(events)
                  /\ activeDays' = activeDays \cup AllDays(events)
                  /\ UNCHANGED <<actPc, heatmap, feed>>
    /\ UNCHANGED <<version, notActivity>>

\* the LeetCode fetch settles.  js/activity.js starts it after GitHub has
\* settled, and renders in the same continuation.
LeetCodeSettles ==
    /\ actPc = "fetching"
    /\ outcome.leetcode = "pending"
    /\ version = "js/activity.js" => outcome.github # "pending"
    /\ \E o \in Outcomes :
          /\ outcome' = [outcome EXCEPT !.leetcode = o]
          /\ LET items == IF o = "success" THEN recentActivities \o LeetCodeItems
                          ELSE recentActivities
                 days == IF o = "success" THEN activeDays \cup {"d2"} ELSE activeDays
             IN  IF version = "js/activity.js" \/ Thrown(o)
                 THEN Render(items, days)
                 ELSE /\ recentActivities' = items
                      /\ activeDays' = days
                      /\ UNCHANGED <<actPc, heatmap, feed>>
    /\ UNCHANGED <<version, notActivity>>

\* the second script: Promise.all has settled, renderHeatmap and renderFeed
AfterPromiseAll ==
    /\ version = "unnamed/part_000"
    /\ actPc = "fetching"
    /\ outcome.github # "pending"
    /\ outcome.leetcode # "pending"
    /\ Render(recentActivities, activeDays)
    /\ UNCHANGED <<version, outcome, notActivity>>

NextActivity == InitActivityCall \/ GitHubSettles \/ LeetCodeSettles \/ AfterPromiseAll

\* a fetch settles, and a continuation that can run does run
SpecActivity == InitActivity /\ [][NextActivity]_vars /\ WF_vars(NextActivity)

\* the page shows what source delivered
ShowsGitHub ==
    /\ \A i \in 1..Len(outcome.events) :
          outcome.events[i].type = "PushEvent" =>
              /\ \E k \in 1..Len(feed.items) : feed.items[k].time = outcome.events[i].time
              /\ outcome.events[i].day \in heatmap.days
ShowsLeetCode ==
    /\ \E k \in 1..Len(feed.items) : StartsWith(feed.items[k].title, "Solved")
    /\ "d2" \in heatmap.days

(***************************************************************************)
(* C27.  The activity page always renders: in every run of initActivity,   *)
(* however the two fetches settle, once both have settled the heatmap and  *)
(* the feed are rendered and no loading placeholder remains; what one      *)
(* source delivered is shown whatever became of the other.                  *)
(***************************************************************************)
C27_AlwaysRenders ==
    /\ [](actPc = "done" =>
            /\ heatmap.state = "rendered"
            /\ feed.state \in {"list", "empty"}
            /\ outcome.github = "success" => ShowsGitHub
            /\ outcome.leetcode = "success" => ShowsLeetCode)
    /\ [](actPc = "done" => outcome.github # "pending" /\ outcome.leetcode # "pending")
    /\ (actPc = "fetching" ~> actPc = "done")

\* GitHub rejected, LeetCode delivered: the page shows LeetCode's data
C27_Witness ==
    /\ actPc = "done"
    /\ outcome.github = "rejected"
    /\ outcome.leetcode = "success"
    /\ heatmap = [state |-> "rendered", days |-> {"d2"}]
    /\ feed.state = "list"
    /\ Len(feed.items) = 1

(***************************************************************************)
(* Overlapping loads: up to MaxLoads calls of loadBlogPost for one         *)
(* container, each for a post of its own, started in any order and at any  *)
(* moment; the fetches settle in any order.  The posts hold no code.       *)
(***************************************************************************)
MaxLoads == 3

LoadCalls == 1..MaxLoads

\* the markdown file that call i asks for
PostOf(i) == "# Post " \o ToString(i)

InitOverlap ==
    /\ IdleBut("overlap")
    /\ loads = [i \in LoadCalls |-> [state |-> "idle", wrote |-> ""]]
    /\ order = <<>>

\* call i is made: the loading state is written, the fetch is started
StartLoad ==
    \E i \in LoadCalls :
        /\ loads[i].state = "idle"
        /\ container' = Loading
        /\ loads' = [loads EXCEPT ![i] = [state |-> "fetch", wrote |-> Loading]]
        /\ order' = Append(order, i)
        /\ UNCHANGED notOverlap

\* the fetch of call i rejects, or is fulfilled with a status; the catch block
\* writes the error
LoadFetchSettles ==
    \E i \in LoadCalls :
        /\ loads[i].state = "fetch"
        /\ \/ \E status \in Statuses :
                 IF ResponseOk(status)
                 THEN /\ loads' = [loads EXCEPT ![i].state = "text"]
                      /\ UNCHANGED container
                 ELSE /\ container' = ErrorHtml(FailureMessage(status))
                      /\ loads' = [loads EXCEPT ![i] = [state |-> "failed", wrote |-> container']]
           \/ \E message \in RejectMessages :
                 /\ container' = ErrorHtml(message)
                 /\ loads' = [loads EXCEPT ![i] = [state |-> "failed", wrote |-> container']]
        /\ UNCHANGED <<order, notOverlap>>

\* the body of call i arrives: the post is parsed and written
LoadBodyArrives ==
    \E i \in LoadCalls :
        /\ loads[i].state = "text"
        /\ container' = parseMarkdown(PostOf(i))
        /\ loads' = [loads EXCEPT ![i] = [state |-> "done", wrote |-> container']]
        /\ UNCHANGED <<order, notOverlap>>

NextOverlap == StartLoad \/ LoadFetchSettles \/ LoadBodyArrives

SpecOverlap == InitOverlap /\ [][NextOverlap]_vars

Settled(i) == loads[i].state \in {"done", "failed"}

(***************************************************************************)
(* C29.  Overlapping loads: when the calls for one container have all      *)
(* settled, the container shows the result, post or error message, of the  *)
(* call that was started last, in whatever order the fetches completed.    *)
(* Stated as the claim states it.                                          *)
(***************************************************************************)
C29_LastStartedWins ==
    (Len(order) >= 2 /\ \A i \in LoadCalls : loads[i].state # "idle" => Settled(i)) =>
        container = loads[order[Len(order)]].wrote

(***************************************************************************)
(* Documents with a fence left open: one parseMarkdown call on a text of   *)
(* at most MaxOpenParts of the pieces below: a complete fence, opening     *)
(* fences with and without a tag, and lines of ordinary markdown.          *)
(***************************************************************************)
MaxOpenParts == 3

OpenPieces ==
    {Fence \o LF \o "x" \o LF \o Fence \o LF, Fence \o "js" \o LF, Fence \o LF,
     "# H" \o LF, "**b**" \o LF, BT \o "c" \o BT \o LF, "[t](u)" \o LF, "- i" \o LF, "<i>" \o LF}

OpenInputs == Texts(OpenPieces, MaxOpenParts)

NextOpen == ParseCall(OpenInputs, 1) \/ ParseSteps

SpecOpen == Init /\ [][NextOpen]_vars

\* the first complete fence of s at or after n, 0 for none
FirstFence(s, n) ==
    LET K == {k \in n..Len(s) : CompleteFenceAt(s, k)}
    IN  IF K = {} THEN 0 ELSE Min(K)

\* the place after the fence that closes the complete fence at k
AfterFence(s, k) == IndexFrom(s, Fence, RunEnd(s, k + 3, WordChars) + 1) + 3

\* the number of complete pairs of an opening and a closing fence from n on
RECURSIVE Pairs(_, _)
Pairs(s, n) ==
    IF FirstFence(s, n) = 0 THEN 0 ELSE 1 + Pairs(s, AfterFence(s, FirstFence(s, n)))

\* where the text after the last complete pair starts
RECURSIVE RestStart(_, _)
RestStart(s, n) ==
    IF FirstFence(s, n) = 0 THEN n ELSE RestStart(s, AfterFence(s, FirstFence(s, n)))

\* the opening fences after the last complete pair: a fence, a word or nothing,
\* a line feed; none of them has a fence after it
OpenFences(s) ==
    {k \in RestStart(s, 1)..Len(s) :
        StartsAt(s, k, Fence) /\ StartsAt(s, RunEnd(s, k + 3, WordChars), LF)}

\* the text after the line of the open fence
OpenTail(s) == From(s, RunEnd(s, Max(OpenFences(s)) + 3, WordChars) + 1)

=============================================================================
